---- MODULE Spec2Model ----
(***************************************************************************)
(* Model of the schema-validated tabular store (crates/core): DbValue,     *)
(* DbSchema, Row, Table and Database, with the Table operations insert,    *)
(* delete, update, intersection, validate, get_row and get_rows.           *)
(*                                                                         *)
(* A floating-point payload (f64 of Money) is modelled as an integer       *)
(* number of ticks, one tick standing for 5e-11, so that the tolerance     *)
(* EPSILON = 1e-10 of the equality is two ticks: values one tick apart     *)
(* are distinct floats (distinct bit patterns) that compare equal.         *)
(***************************************************************************)
EXTENDS Integers, Sequences, FiniteSets, TLC

VARIABLES
  db,        \* the Database (in the adapter: the one inside the Mutex)
  last,      \* the call the last step made on a Table, and its result
  issued,    \* per table, the ids its successful inserts returned
  server,    \* the adapter: "start" before fn rocket has run, then "up"
  lock,      \* the holder of the Mutex: 0 for none, a client, or AutoId
  poisoned,  \* the Mutex is poisoned
  pc,        \* per client, where its request is
  apc,       \* where the autosave task is
  disk,      \* the file at db_path
  pending,   \* the response of the handler that is about to save
  resp,      \* the response the last step sent, if it sent one
  faults,    \* i/o failures so far
  frame,     \* per client, the locals of a handler that runs statement by statement
  gui        \* the fields of the DatabaseApp of the GUI, its database apart

coreVars == <<db, last, issued>>
apiVars == <<server, lock, poisoned, pc, apc, disk, pending, resp, faults, frame, gui>>
vars == <<db, last, issued, server, lock, poisoned, pc, apc, disk, pending, resp, faults,
          frame, gui>>

\* ------------------------------------------------------------------ bounds
\* insert calls on one table that pass validation
MaxIndex == 3
\* the same, for the tables handed to intersection
MaxInterIndex == 2
\* the same, for a table behind the REST adapter
MaxApiIndex == 1
\* tables in the database behind the REST adapter
MaxApiTables == 2
\* clients of the REST adapter
NumClients == 2
\* i/o failures in one run of the REST adapter
MaxFaults == 1
\* Money payloads are the ticks 0..MaxTick
MaxTick == 2
\* tables in the database open in the GUI
MaxGuiTables == 1
\* insert calls on a table in the GUI that pass validation
MaxGuiIndex == 1
\* inserts accepted per table while handlers run statement by statement
MaxConcIndex == 2
\* insert calls on a table of a database that is saved and loaded
MaxRoundIndex == 1
\* insert calls accepted by a table after its counter has passed u32::MAX
MaxTopIndex == 1
\* tables in the database open in the GUI while it intersects tables
MaxGuiInterTables == 2

\* ------------------------------------------------------ program constants
\* A u32 (Row.id, Table.index) is held as the integer congruent to it modulo
\* 2^32 in -2^31 .. 2^31-1: 0 .. 2^31-1 stand for themselves and
\* 2^31 .. 2^32-1 for the negative numbers, so that u32::MAX is -1.
U32Max == 0 - 1
I32Max == 2147483647
\* a + 1 in u32 arithmetic, wrapping
u32_wrapping_inc(a) == IF a = I32Max THEN (0 - I32Max) - 1 ELSE a + 1
\* a - 1 in u32 arithmetic, wrapping
u32_wrapping_dec(a) == IF a = (0 - I32Max) - 1 THEN I32Max ELSE a - 1
\* a < b as u32
u32_lt(a, b) == IF (a < 0) = (b < 0) THEN a < b ELSE b < 0
\* const EPSILON: f64 = 1e-10 of the Money comparison, in ticks
MoneyEpsilon == 2

\* ------------------------------------------------------- schema.rs: values
Integer(i) == [kind |-> "Integer", v |-> i]
Money(m) == [kind |-> "Money", v |-> m]

\* DbValue::value_type
value_type(value) ==
  CASE value.kind = "Integer" -> "integer"
    [] value.kind = "Money" -> "money"

Abs(x) == IF x < 0 THEN -x ELSE x

\* impl PartialEq for DbValue
\* f64::NAN as a Money payload, kept apart from the ticks 0..MaxTick
NaN == 0 - 1
is_finite(f) == f # NaN

\* a comparison with NaN is false, so a NaN payload equals nothing
eq(a, b) ==
  CASE a.kind = "Integer" /\ b.kind = "Integer" -> a.v = b.v
    [] a.kind = "Money" /\ b.kind = "Money" ->
         is_finite(a.v) /\ is_finite(b.v) /\ Abs(a.v - b.v) < MoneyEpsilon
    [] OTHER -> FALSE

\* f64::to_bits on the modelled floats: distinct ticks are distinct finite
\* floats and have distinct bit patterns
to_bits(f) == f

\* impl Hash for DbValue: what the value feeds to the hasher (the payload,
\* without the variant)
hash(value) ==
  CASE value.kind = "Integer" -> value.v
    [] value.kind = "Money" -> to_bits(value.v)

\* PartialEq of Vec<DbValue>: same length and element-wise eq
vec_eq(a, b) ==
  /\ Len(a) = Len(b)
  /\ \A i \in 1..Len(a) : eq(a[i], b[i])

\* Hash of Vec<DbValue>: the length, then every element
vec_hash(a) == <<Len(a), [i \in 1..Len(a) |-> hash(a[i])]>>

\* ------------------------------------------------------ schema.rs: schemas
DbColumn(name, column_type) == [name |-> name, column_type |-> column_type]
DbSchema(name, columns) == [name |-> name, columns |-> columns]

SchemaA == DbSchema("s", <<DbColumn("id", "integer"), DbColumn("balance", "money")>>)
SchemaB == DbSchema("s", <<DbColumn("age", "integer"), DbColumn("balance", "money")>>)
SchemaC == DbSchema("s", <<DbColumn("balance", "money"), DbColumn("id", "integer")>>)
\* the columns of SchemaA under another schema name
SchemaD == DbSchema("s2", <<DbColumn("id", "integer"), DbColumn("balance", "money")>>)
\* the first column of SchemaA alone
SchemaE == DbSchema("s", <<DbColumn("id", "integer")>>)

\* ------------------------------------------------------------- table.rs
Row(id, values) == [id |-> id, values |-> values]

\* a new that starts the counter at 1
new_counter_one(name, schema) ==
  [schema |-> schema, rows |-> <<>>, index |-> 1, name |-> name]

\* Table::new
new(name, schema) ==
  [schema |-> schema, rows |-> <<>>, index |-> 0, name |-> name]

\* Option<T>: None, or Some(x)
None == <<>>
Some(x) == <<x>>

Ok == [status |-> "Ok", err |-> ""]
Err(msg) == [status |-> "Err", err |-> msg]

\* validate without the per-position kind check
validate_arity_only(self, row) ==
  IF Len(row) # Len(self.schema.columns)
  THEN Err("Row length does not match schema length")
  ELSE Ok

\* validate that compares the kinds, as far as both sequences go, before
\* the lengths
validate_kinds_first(self, row) ==
  IF \E i \in 1..Len(row) : /\ i <= Len(self.schema.columns)
                            /\ value_type(row[i]) # self.schema.columns[i].column_type
  THEN Err("Value type does not match schema type")
  ELSE IF Len(row) # Len(self.schema.columns)
       THEN Err("Row length does not match schema length")
       ELSE Ok

\* Table::validate
validate(self, row) ==
  IF Len(row) # Len(self.schema.columns)
  THEN Err("Row length does not match schema length")
  ELSE IF \E i \in 1..Len(row) : value_type(row[i]) # self.schema.columns[i].column_type
       THEN Err("Value type does not match schema type")
       ELSE Ok

\* HashMap::insert on the row map
map_insert(rows, id, row) ==
  [k \in (DOMAIN rows) \cup {id} |-> IF k = id THEN row ELSE rows[k]]

\* HashMap::remove on the row map
map_remove(rows, id) ==
  [k \in (DOMAIN rows) \ {id} |-> rows[k]]

\* insert that advances the counter before it validates
insert_count_first(self, row, overflow_checks) ==
  LET v == validate(self, row) IN
  IF v.status # "Ok"
  THEN [table |-> [self EXCEPT !.index = u32_wrapping_inc(self.index)],
        status |-> "Err", err |-> v.err, id |-> None]
  ELSE LET id == self.index
           stored == [self EXCEPT !.rows = map_insert(self.rows, id, Row(id, row))]
           next == u32_wrapping_inc(self.index)
       IN [table |-> [stored EXCEPT !.index = next], status |-> "Ok",
           err |-> "", id |-> Some(u32_wrapping_dec(next))]

\* insert that returns the counter after the increment
insert_returns_next(self, row, overflow_checks) ==
  LET v == validate(self, row) IN
  IF v.status # "Ok"
  THEN [table |-> self, status |-> "Err", err |-> v.err, id |-> None]
  ELSE LET id == self.index
           stored == [self EXCEPT !.rows = map_insert(self.rows, id, Row(id, row))]
           next == u32_wrapping_inc(self.index)
       IN [table |-> [stored EXCEPT !.index = next], status |-> "Ok",
           err |-> "", id |-> Some(next)]

\* insert that writes the counter after the increment into the id field of
\* the row it stores
insert_id_field_next(self, row, overflow_checks) ==
  LET v == validate(self, row) IN
  IF v.status # "Ok"
  THEN [table |-> self, status |-> "Err", err |-> v.err, id |-> None]
  ELSE LET id == self.index
           next == u32_wrapping_inc(self.index)
           stored == [self EXCEPT !.rows = map_insert(self.rows, id, Row(next, row))]
       IN [table |-> [stored EXCEPT !.index = next], status |-> "Ok",
           err |-> "", id |-> Some(u32_wrapping_dec(next))]

\* Table::insert.  overflow_checks is the build's setting for integer
\* overflow: with it `self.index += 1` panics at u32::MAX, without it wraps.
insert(self, row, overflow_checks) ==
  LET v == validate(self, row) IN
  IF v.status # "Ok"
  THEN [table |-> self, status |-> "Err", err |-> v.err, id |-> None]
  ELSE LET id == self.index
           stored == [self EXCEPT !.rows = map_insert(self.rows, id, Row(id, row))]
       IN IF self.index = U32Max /\ overflow_checks
          THEN [table |-> stored, status |-> "Panic",
                err |-> "attempt to add with overflow", id |-> None]
          ELSE LET next == u32_wrapping_inc(self.index) IN
               [table |-> [stored EXCEPT !.index = next], status |-> "Ok",
                err |-> "", id |-> Some(u32_wrapping_dec(next))]

\* delete that takes the counter back with the row
delete_count_back(self, id) ==
  IF id \in DOMAIN self.rows
  THEN [table |-> [self EXCEPT !.rows = map_remove(self.rows, id),
                               !.index = u32_wrapping_dec(self.index)],
        status |-> "Ok", err |-> ""]
  ELSE [table |-> self, status |-> "Err", err |-> "Row not found"]

\* delete that accepts a missing id
delete_idempotent(self, id) ==
  [table |-> [self EXCEPT !.rows = map_remove(self.rows, id)],
   status |-> "Ok", err |-> ""]

\* Table::delete
delete(self, id) ==
  IF id \in DOMAIN self.rows
  THEN [table |-> [self EXCEPT !.rows = map_remove(self.rows, id)],
        status |-> "Ok", err |-> ""]
  ELSE [table |-> self, status |-> "Err", err |-> "Row not found"]

\* Table::get_row
get_row(self, id) ==
  IF id \in DOMAIN self.rows
  THEN [status |-> "Ok", err |-> "", rows |-> <<self.rows[id]>>]
  ELSE [status |-> "Err", err |-> "Row not found", rows |-> <<>>]

\* Table::get_row_mut: unwrap() of the lookup, which panics on a missing id
get_row_mut(self, id) ==
  IF id \in DOMAIN self.rows
  THEN [status |-> "Ok", err |-> ""]
  ELSE [status |-> "Panic", err |-> "Row not found"]

\* update that reports success and keeps the old values
update_keep(self, id, new_row) ==
  LET v == validate(self, new_row) IN
  IF v.status # "Ok"
  THEN [table |-> self, status |-> "Err", err |-> v.err]
  ELSE LET r == get_row_mut(self, id) IN
       [table |-> self, status |-> r.status, err |-> r.err]

\* update that replaces the values before it validates them
update_assign_first(self, id, new_row) ==
  LET r == get_row_mut(self, id) IN
  IF r.status # "Ok"
  THEN [table |-> self, status |-> r.status, err |-> r.err]
  ELSE LET v == validate(self, new_row) IN
       [table |-> [self EXCEPT !.rows[id].values = new_row],
        status |-> v.status, err |-> v.err]

\* update that gives the new values to every row of the table
update_every_row(self, id, new_row) ==
  LET v == validate(self, new_row) IN
  IF v.status # "Ok"
  THEN [table |-> self, status |-> "Err", err |-> v.err]
  ELSE LET r == get_row_mut(self, id) IN
       IF r.status # "Ok"
       THEN [table |-> self, status |-> r.status, err |-> r.err]
       ELSE [table |-> [self EXCEPT !.rows = [k \in DOMAIN self.rows |->
                                                Row(k, new_row)]],
             status |-> "Ok", err |-> ""]

\* Table::update
update(self, id, new_row) ==
  LET v == validate(self, new_row) IN
  IF v.status # "Ok"
  THEN [table |-> self, status |-> "Err", err |-> v.err]
  ELSE LET r == get_row_mut(self, id) IN
       IF r.status # "Ok"
       THEN [table |-> self, status |-> r.status, err |-> r.err]
       ELSE [table |-> [self EXCEPT !.rows[id].values = new_row],
             status |-> "Ok", err |-> ""]

\* Table::get_rows.  order is the iteration order of the HashMap, a sequence
\* holding every key once.
\* a get_rows that leaves out the row the iteration starts with
get_rows_rest(self, order) == [i \in 1..(Len(order) - 1) |-> self.rows[order[i + 1]]]

get_rows(self, order) == [i \in 1..Len(order) |-> self.rows[order[i]]]

\* HashSet<Vec<DbValue>>::contains.  The probe compares k with the members
\* whose hash it takes to be that of k: the members with the same hash, and
\* those of a different hash that the table happens to place with it
\* (collide, pairs of keys); a candidate is a hit when it is == k.
set_contains(set, k, collide) ==
  \E e \in set : /\ vec_hash(e) = vec_hash(k) \/ {e, k} \in collide
                 /\ vec_eq(e, k)

\* HashSet<Vec<DbValue>>::insert
set_insert(set, k, collide) ==
  IF set_contains(set, k, collide) THEN set ELSE set \cup {k}

\* the loop of lines 72-74: the value sequences of self's rows, inserted in
\* iteration order
RECURSIVE unique_rows(_, _, _, _)
unique_rows(self, order, n, collide) ==
  IF n = 0 THEN {}
  ELSE set_insert(unique_rows(self, order, n - 1, collide),
                  self.rows[order[n]].values, collide)

\* the loop of lines 76-80: the rows of other, in iteration order, whose
\* value sequence the set contains
RECURSIVE matching_rows(_, _, _, _, _)
matching_rows(other, order, n, set, collide) ==
  IF n = 0 THEN <<>>
  ELSE LET rest == matching_rows(other, order, n - 1, set, collide)
           row == other.rows[order[n]]
       IN IF set_contains(set, row.values, collide) THEN Append(rest, row) ELSE rest

\* intersection that compares the columns of the schemas and not their names
intersection_columns_only(self, other, self_order, other_order, collide) ==
  IF self.schema.columns # other.schema.columns
  THEN [status |-> "Err", err |-> "Schemas do not match", rows |-> <<>>]
  ELSE LET set == unique_rows(self, self_order, Len(self_order), collide) IN
       [status |-> "Ok", err |-> "",
        rows |-> matching_rows(other, other_order, Len(other_order), set, collide)]

\* Table::intersection
intersection(self, other, self_order, other_order, collide) ==
  IF self.schema # other.schema
  THEN [status |-> "Err", err |-> "Schemas do not match", rows |-> <<>>]
  ELSE LET set == unique_rows(self, self_order, Len(self_order), collide) IN
       [status |-> "Ok", err |-> "",
        rows |-> matching_rows(other, other_order, Len(other_order), set, collide)]

Range(f) == {f[x] : x \in DOMAIN f}

\* ----------------------------------------------------------- database.rs
\* Database::new
Database_new(name) == [name |-> name, tables |-> <<>>]

\* Database::add_table
\* an add_table that puts the table in the place of one of the same name
add_table_replace(self, table) ==
  IF \A i \in 1..Len(self.tables) : self.tables[i].name # table.name
  THEN [self EXCEPT !.tables = Append(@, table)]
  ELSE [self EXCEPT !.tables =
          [i \in 1..Len(self.tables) |->
             IF self.tables[i].name = table.name THEN table ELSE self.tables[i]]]

add_table(self, table) == [self EXCEPT !.tables = Append(@, table)]

\* Iterator::position on the names: the index of the first table of that
\* name, 0 when there is none
\* a lookup that resolves to the last table of that name
position_last(self, name) ==
  IF \E i \in 1..Len(self.tables) : self.tables[i].name = name
  THEN CHOOSE i \in 1..Len(self.tables) :
         /\ self.tables[i].name = name
         /\ \A j \in (i + 1)..Len(self.tables) : self.tables[j].name # name
  ELSE 0

position(self, name) ==
  IF \E i \in 1..Len(self.tables) : self.tables[i].name = name
  THEN CHOOSE i \in 1..Len(self.tables) :
         /\ self.tables[i].name = name
         /\ \A j \in 1..(i - 1) : self.tables[j].name # name
  ELSE 0

\* Database::get_table and Database::get_table_mut
get_table(self, name) ==
  IF position(self, name) = 0 THEN None ELSE Some(self.tables[position(self, name)])

\* Database::delete_table
\* a delete_table that removes every table of that name
delete_table_all(self, name) ==
  LET i == position(self, name) IN
  IF i = 0
  THEN [db |-> self, removed |-> None]
  ELSE [db |-> [self EXCEPT !.tables = SelectSeq(self.tables, LAMBDA t : t.name # name)],
        removed |-> Some(self.tables[i])]

delete_table(self, name) ==
  LET i == position(self, name) IN
  IF i = 0
  THEN [db |-> self, removed |-> None]
  ELSE [db |-> [self EXCEPT !.tables =
                  SubSeq(self.tables, 1, i - 1) \o SubSeq(self.tables, i + 1, Len(self.tables))],
        removed |-> Some(self.tables[i])]

\* ------------------------------------------------- strings of the adapter
\* A string is the sequence of its characters.
DigitChars == <<"0", "1", "2", "3", "4", "5", "6", "7", "8", "9">>
IsDigit(c) == c \in Range(DigitChars)
digit_char(n) == DigitChars[n + 1]
digit_value(c) == CHOOSE n \in 0..9 : DigitChars[n + 1] = c

RECURSIVE digits(_)
digits(n) ==
  IF n < 10 THEN <<digit_char(n)>> ELSE Append(digits(n \div 10), digit_char(n % 10))

\* u32::to_string: the decimal digits, no sign and no leading zero.  A u32
\* held as a negative number u stands for u + 2^32 = (u + 2^31) + 2^31 and
\* 2^31 = 214748364 * 10 + 8.
to_string(u) ==
  IF u >= 0 THEN digits(u)
  ELSE LET low == (u + I32Max) + 1
           units == (low % 10) + 8
       IN Append(digits((low \div 10) + 214748364 + (units \div 10)), digit_char(units % 10))

RECURSIVE digits_value(_)
digits_value(str) ==
  IF Len(str) = 0 THEN 0
  ELSE digits_value(SubSeq(str, 1, Len(str) - 1)) * 10 + digit_value(str[Len(str)])

\* str::parse::<u32>, for strings of at most 9 characters (whose value is
\* below 10^9 and cannot overflow): an optional +, then one digit or more
parse_u32(str) ==
  LET body == IF Len(str) > 0 /\ str[1] = "+" THEN SubSeq(str, 2, Len(str)) ELSE str IN
  IF Len(body) > 0 /\ \A i \in 1..Len(body) : IsDigit(body[i])
  THEN Some(digits_value(body))
  ELSE None

\* ------------------------------------------------------------------ io.rs
\* serde_json of a DbValue: an object of one key, the variant's name; a
\* finite f64 is written with the digits that read back as the same float
\* serde_json writes a float that is not finite as null
value_to_json(value) ==
  IF value.kind = "Money" /\ ~is_finite(value.v)
  THEN [tag |-> value.kind, number |-> 0, null |-> TRUE]
  ELSE [tag |-> value.kind, number |-> value.v, null |-> FALSE]
value_from_json(json) == [kind |-> json.tag, v |-> json.number]

row_to_json(row) ==
  [id |-> row.id, values |-> [i \in 1..Len(row.values) |-> value_to_json(row.values[i])]]
row_from_json(json) ==
  [id |-> json.id, values |-> [i \in 1..Len(json.values) |-> value_from_json(json.values[i])]]

\* the rows object: one member per entry of the map, its key the id in
\* decimal
table_to_json(table) ==
  [name |-> table.name, schema |-> table.schema, index |-> table.index,
   rows |-> {<<to_string(k), row_to_json(table.rows[k])>> : k \in DOMAIN table.rows}]

table_from_json(json) ==
  LET keys == {parse_u32(m[1])[1] : m \in json.rows} IN
  [name |-> json.name, schema |-> json.schema, index |-> json.index,
   rows |-> [k \in keys |-> row_from_json((CHOOSE m \in json.rows : parse_u32(m[1]) = Some(k))[2])]]

\* what save_to_file writes for a Database
serialize(data) ==
  [name |-> data.name,
   tables |-> [i \in 1..Len(data.tables) |-> table_to_json(data.tables[i])]]

\* what load_from_file reads from a well-formed document
deserialize(doc) ==
  [name |-> doc.name,
   tables |-> [i \in 1..Len(doc.tables) |-> table_from_json(doc.tables[i])]]

\* the file at db_path: absent, a document, or bytes that do not parse
NoFile == [kind |-> "absent", doc |-> Database_new("")]
BadFile == [kind |-> "corrupt", doc |-> Database_new("")]
File(doc) == [kind |-> "doc", doc |-> doc]

\* save_to_file: File::create, then the document through a BufWriter that
\* is dropped at the end (its last flush reports no error).  outcome:
\*   "written"        the file holds the document, Ok
\*   "create_failed"  File::create failed, the file is as before, Err
\*   "write_failed"   a write failed part way, the file is cut short, Err
\*   "flush_lost"     the flush on drop failed, the file is cut short, Ok
save_to_file(data, file, outcome) ==
  CASE outcome = "written" -> [file |-> File(serialize(data)), status |-> "Ok", err |-> ""]
    [] outcome = "create_failed" -> [file |-> file, status |-> "Err", err |-> "io error"]
    [] outcome = "write_failed" -> [file |-> BadFile, status |-> "Err", err |-> "io error"]
    [] outcome = "flush_lost" -> [file |-> BadFile, status |-> "Ok", err |-> ""]

\* load_from_file
\* a null where the payload of a value is expected
has_null(doc) ==
  \E i \in 1..Len(doc.tables) : \E m \in doc.tables[i].rows :
    \E j \in 1..Len(m[2].values) : m[2].values[j].null

load_from_file(file) ==
  IF file.kind # "doc"
  THEN [status |-> "Err", err |-> "io error", data |-> None]
  ELSE IF has_null(file.doc)
       THEN [status |-> "Err", err |-> "invalid type: null, expected f64", data |-> None]
       ELSE [status |-> "Ok", err |-> "", data |-> Some(deserialize(file.doc))]

\* --------------------------------------------------------- api/src/lib.rs
Record(id, values) == [id |-> id, values |-> values]

\* what a handler comes to: the database it leaves, its result (Ok, Err or
\* Panic), the records of an Ok body, and whether it goes on to save
Reply(data, status, err, records, save) ==
  [db |-> data, status |-> status, err |-> err, records |-> records, save |-> save,
   names |-> <<>>, schema |-> None, result |-> None]

to_records(rows) == [i \in 1..Len(rows) |-> Record(to_string(rows[i].id), rows[i].values)]

\* fn create_table, up to the save
api_create_table(data, table_name, schema) ==
  Reply(add_table(data, new(table_name, schema)), "Ok", "", <<>>, TRUE)

\* fn delete_table, up to the save
api_delete_table(data, table_name) ==
  LET r == delete_table(data, table_name) IN
  IF r.removed = None
  THEN Reply(data, "Err", "Table not found", <<>>, FALSE)
  ELSE Reply(r.db, "Ok", "", <<>>, TRUE)

\* fn get_all
\* fn get_all that goes on to save_to_file like the mutating handlers
api_get_all_saving(data, table_name, order) ==
  LET i == position(data, table_name) IN
  IF i = 0 THEN Reply(data, "Err", "Table not found", <<>>, FALSE)
  ELSE Reply(data, "Ok", "", to_records(get_rows(data.tables[i], order)), TRUE)

api_get_all(data, table_name, order) ==
  LET i == position(data, table_name) IN
  IF i = 0 THEN Reply(data, "Err", "Table not found", <<>>, FALSE)
  ELSE Reply(data, "Ok", "", to_records(get_rows(data.tables[i], order)), FALSE)

\* fn list_tables
api_list_tables(data) ==
  [Reply(data, "Ok", "", <<>>, FALSE) EXCEPT
     !.names = [i \in 1..Len(data.tables) |-> data.tables[i].name]]

\* fn get_table_details
api_get_table_details(data, table_name, order) ==
  LET i == position(data, table_name) IN
  IF i = 0 THEN Reply(data, "Err", "Table not found", <<>>, FALSE)
  ELSE [Reply(data, "Ok", "", to_records(get_rows(data.tables[i], order)), FALSE) EXCEPT
          !.schema = Some(data.tables[i].schema)]

\* fn get_by_id
api_get_by_id(data, table_name, id) ==
  LET i == position(data, table_name) IN
  IF i = 0 THEN Reply(data, "Err", "Table not found", <<>>, FALSE)
  ELSE IF parse_u32(id) = None THEN Reply(data, "Err", "Invalid ID format", <<>>, FALSE)
  ELSE LET r == get_row(data.tables[i], parse_u32(id)[1]) IN
       IF r.status # "Ok" THEN Reply(data, r.status, r.err, <<>>, FALSE)
       ELSE Reply(data, "Ok", "", to_records(r.rows), FALSE)

\* fn create, up to the save
\* fn create that makes the table it does not find before it gives up
api_create_making(data, table_name, values, overflow_checks) ==
  LET i == position(data, table_name) IN
  IF i = 0
  THEN Reply(add_table(data, new(table_name, SchemaA)), "Err", "Table not found", <<>>, FALSE)
  ELSE LET r == insert(data.tables[i], values, overflow_checks)
           after == [data EXCEPT !.tables[i] = r.table]
       IN IF r.status # "Ok" THEN Reply(after, r.status, r.err, <<>>, FALSE)
          ELSE Reply(after, "Ok", "", <<Record(to_string(r.id[1]), values)>>, TRUE)

api_create(data, table_name, values, overflow_checks) ==
  LET i == position(data, table_name) IN
  IF i = 0 THEN Reply(data, "Err", "Table not found", <<>>, FALSE)
  ELSE LET r == insert(data.tables[i], values, overflow_checks)
           after == [data EXCEPT !.tables[i] = r.table]
       IN IF r.status # "Ok" THEN Reply(after, r.status, r.err, <<>>, FALSE)
          ELSE Reply(after, "Ok", "", <<Record(to_string(r.id[1]), values)>>, TRUE)

\* update that returns its record without the save
api_update_unsaved(data, table_name, id, values) ==
  LET i == position(data, table_name) IN
  IF i = 0 THEN Reply(data, "Err", "Table not found", <<>>, FALSE)
  ELSE IF parse_u32(id) = None THEN Reply(data, "Err", "Invalid ID format", <<>>, FALSE)
  ELSE LET r == update(data.tables[i], parse_u32(id)[1], values)
           after == [data EXCEPT !.tables[i] = r.table]
       IN IF r.status # "Ok" THEN Reply(after, r.status, r.err, <<>>, FALSE)
          ELSE Reply(after, "Ok", "", <<Record(id, values)>>, FALSE)

\* fn update, up to the save
api_update(data, table_name, id, values) ==
  LET i == position(data, table_name) IN
  IF i = 0 THEN Reply(data, "Err", "Table not found", <<>>, FALSE)
  ELSE IF parse_u32(id) = None THEN Reply(data, "Err", "Invalid ID format", <<>>, FALSE)
  ELSE LET r == update(data.tables[i], parse_u32(id)[1], values)
           after == [data EXCEPT !.tables[i] = r.table]
       IN IF r.status # "Ok" THEN Reply(after, r.status, r.err, <<>>, FALSE)
          ELSE Reply(after, "Ok", "", <<Record(id, values)>>, TRUE)

\* fn delete, up to the save
api_delete(data, table_name, id) ==
  LET i == position(data, table_name) IN
  IF i = 0 THEN Reply(data, "Err", "Table not found", <<>>, FALSE)
  ELSE IF parse_u32(id) = None THEN Reply(data, "Err", "Invalid ID format", <<>>, FALSE)
  ELSE LET r == delete(data.tables[i], parse_u32(id)[1])
           after == [data EXCEPT !.tables[i] = r.table]
       IN IF r.status # "Ok" THEN Reply(after, r.status, r.err, <<>>, FALSE)
          ELSE Reply(after, "Ok", "", <<>>, TRUE)

\* fn intersection
api_intersection(data, table1, table2, self_order, other_order, collide) ==
  LET i == position(data, table1)
      j == position(data, table2)
  IN IF i = 0 THEN Reply(data, "Err", "Table 1 not found", <<>>, FALSE)
     ELSE IF j = 0 THEN Reply(data, "Err", "Table 2 not found", <<>>, FALSE)
     ELSE LET r == intersection(data.tables[i], data.tables[j],
                                self_order, other_order, collide) IN
          IF r.status # "Ok" THEN Reply(data, r.status, r.err, <<>>, FALSE)
          ELSE Reply(data, "Ok", "", to_records(r.rows), FALSE)

\* ------------------------------------------------------------ the machine
\* rows offered to insert and update: rows matching SchemaA and SchemaB,
\* rows matching SchemaC, a row with a wrong kind for each of them, and rows
\* that are too short and too long
InputRows ==
  {<<Integer(7), Money(m)>> : m \in 0..MaxTick}
    \cup {<<Money(m), Integer(7)>> : m \in 0..1}
    \cup {<<Integer(7), Integer(7)>>, <<Integer(7)>>, <<Integer(7), Money(0), Money(0)>>}

\* the rows among them that a table accepts
ValidRows(self) == {row \in InputRows : validate(self, row).status = "Ok"}

Ids == 0..MaxIndex

\* the iteration orders a HashMap with the key set S can have
Orders(S) ==
  {o \in [1..Cardinality(S) -> S] : \A i, j \in 1..Cardinality(S) : o[i] = o[j] => i = j}

\* the value sequences held by a table
ValuesOf(self) == {self.rows[k].values : k \in DOMAIN self.rows}

\* the sets of pairs of keys with different hashes that a hash table may
\* place together; only the pairs that are == can change a lookup
Collisions(keys) ==
  SUBSET {p \in {{a, b} : a, b \in keys} :
            \E a, b \in p : vec_hash(a) # vec_hash(b) /\ vec_eq(a, b)}

\* the orders in which intersection may meet the rows of self: without
\* collisions the set it builds is the same for all of them, and one stands
\* for all
SelfOrders(self, collide) ==
  IF collide = {}
  THEN {CHOOSE o \in Orders(DOMAIN self.rows) : TRUE}
  ELSE Orders(DOMAIN self.rows)

Tables == 1..Len(db.tables)

NoOp == [op |-> "new", t |-> 0, other |-> 0, id |-> 0, row |-> <<>>,
         status |-> "Ok", err |-> "", retId |-> None, retRows |-> <<>>]

Clients == 1..NumClients
AutoId == NumClients + 1

NoReply == [client |-> 0, op |-> "", table |-> "", id |-> <<>>, values |-> <<>>,
            status |-> "", err |-> "", records |-> <<>>, names |-> <<>>, schema |-> None,
            result |-> None]

\* no handler is part way through its statements
NoFrame == [table |-> "", values |-> <<>>, id |-> None, seen |-> None]
NoFrames == [c \in Clients |-> NoFrame]

\* DatabaseApp::new: no database, no path, nothing selected
NoGui == [open |-> FALSE, path |-> FALSE, selected_table |-> None,
          has_unsaved_changes |-> FALSE, show_close_confirmation |-> FALSE,
          show_intersection_window |-> FALSE, intersection_table |-> None,
          intersection_result |-> None, crashed |-> FALSE]

\* the core used without an adapter
NoAdapter ==
  /\ server = "none" /\ lock = 0 /\ poisoned = FALSE
  /\ pc = [c \in Clients |-> "idle"] /\ apc = "sleep"
  /\ disk = NoFile /\ pending = NoReply /\ resp = NoReply /\ faults = 0
  /\ frame = NoFrames /\ gui = NoGui

\* one table, just created
Init ==
  /\ \E s \in {SchemaA, SchemaC} :
       db = [name |-> "db", tables |-> <<new("A", s)>>]
  /\ last = NoOp
  /\ issued = <<<<>>>>
  /\ NoAdapter

\* the core is called directly, and a panic ends the run of the caller
Running == server = "none" /\ last.status # "Panic"

Insert(t, row) ==
  /\ Running
  /\ db.tables[t].index >= 0 /\ db.tables[t].index < MaxIndex
  /\ \E overflow_checks \in BOOLEAN :
       LET r == insert(db.tables[t], row, overflow_checks) IN
       /\ db' = [db EXCEPT !.tables[t] = r.table]
       /\ last' = [NoOp EXCEPT !.op = "insert", !.t = t, !.row = row,
                               !.status = r.status, !.err = r.err, !.retId = r.id]
       /\ issued' = IF r.status = "Ok"
                    THEN [issued EXCEPT ![t] = Append(@, r.id[1])]
                    ELSE issued
  /\ UNCHANGED apiVars

Delete(t, id) ==
  /\ Running
  /\ LET r == delete(db.tables[t], id) IN
       /\ db' = [db EXCEPT !.tables[t] = r.table]
       /\ last' = [NoOp EXCEPT !.op = "delete", !.t = t, !.id = id,
                               !.status = r.status, !.err = r.err]
  /\ UNCHANGED issued
  /\ UNCHANGED apiVars

Update(t, id, row) ==
  /\ Running
  /\ LET r == update(db.tables[t], id, row) IN
       /\ db' = [db EXCEPT !.tables[t] = r.table]
       /\ last' = [NoOp EXCEPT !.op = "update", !.t = t, !.id = id, !.row = row,
                               !.status = r.status, !.err = r.err]
  /\ UNCHANGED issued
  /\ UNCHANGED apiVars

GetRow(t, id) ==
  /\ Running
  /\ LET r == get_row(db.tables[t], id) IN
       last' = [NoOp EXCEPT !.op = "get_row", !.t = t, !.id = id,
                            !.status = r.status, !.err = r.err, !.retRows = r.rows]
  /\ UNCHANGED <<db, issued>>
  /\ UNCHANGED apiVars

GetRows(t) ==
  /\ Running
  /\ \E order \in Orders(DOMAIN db.tables[t].rows) :
       last' = [NoOp EXCEPT !.op = "get_rows", !.t = t,
                            !.retRows = get_rows(db.tables[t], order)]
  /\ UNCHANGED <<db, issued>>
  /\ UNCHANGED apiVars

Next ==
  \/ \E t \in Tables, row \in InputRows : Insert(t, row)
  \/ \E t \in Tables, id \in Ids : Delete(t, id)
  \/ \E t \in Tables, id \in Ids, row \in InputRows : Update(t, id, row)
  \/ \E t \in Tables, id \in Ids : GetRow(t, id)
  \/ \E t \in Tables : GetRows(t)

Spec == Init /\ [][Next]_vars

\* -------------------------------------------- intersection of two tables
\* the tables that insert, update and delete make of new(name, schema) with
\* at most n accepted inserts: the counter at i <= n, and under any of the
\* ids below i a row of that id with accepted values
TablesUpTo(name, schema, n) ==
  LET t0 == new(name, schema) IN
  UNION {UNION {{[t0 EXCEPT !.index = i, !.rows = [k \in D |-> Row(k, f[k])]] :
                   f \in [D -> ValidRows(t0)]} :
                D \in SUBSET (0..(i - 1))} :
         i \in 0..n}

InitInter ==
  /\ \E self \in TablesUpTo("A", SchemaA, MaxInterIndex),
        s \in {SchemaA, SchemaB, SchemaD} :
       \E other \in TablesUpTo("B", s, MaxInterIndex) :
         db = [name |-> "db", tables |-> <<self, other>>]
  /\ last = NoOp
  /\ issued = [t \in 1..2 |-> [i \in 1..db.tables[t].index |-> i - 1]]
  /\ NoAdapter

\* intersection that moves the rows out of self to build its set
Intersection_draining(t, o) ==
  /\ last.op = "new"
  /\ \E collide \in Collisions(ValuesOf(db.tables[t]) \cup ValuesOf(db.tables[o])),
        other_order \in Orders(DOMAIN db.tables[o].rows) :
     \E self_order \in SelfOrders(db.tables[t], collide) :
       LET r == intersection(db.tables[t], db.tables[o], self_order, other_order, collide) IN
       last' = [NoOp EXCEPT !.op = "intersection", !.t = t, !.other = o,
                            !.status = r.status, !.err = r.err, !.retRows = r.rows]
  /\ db' = [db EXCEPT !.tables[t].rows = <<>>]
  /\ UNCHANGED issued
  /\ UNCHANGED apiVars

\* one call of self.intersection(other) on the tables drawn
Intersection(t, o) ==
  /\ last.op = "new"
  /\ \E collide \in Collisions(ValuesOf(db.tables[t]) \cup ValuesOf(db.tables[o])),
        other_order \in Orders(DOMAIN db.tables[o].rows) :
     \E self_order \in SelfOrders(db.tables[t], collide) :
       LET r == intersection(db.tables[t], db.tables[o], self_order, other_order, collide) IN
       last' = [NoOp EXCEPT !.op = "intersection", !.t = t, !.other = o,
                            !.status = r.status, !.err = r.err, !.retRows = r.rows]
  /\ UNCHANGED <<db, issued>>
  /\ UNCHANGED apiVars

NextInter == \E t \in Tables, o \in Tables : Intersection(t, o)

SpecInter == InitInter /\ [][NextInter]_vars

\* ------------------------------------------------------ the REST adapter
\* DATABASE_FILE
DbPath == "database.db"

ApiNames == {"t", "u"}
ApiSchemas == {SchemaA}
\* request bodies: rows matching the schemas, and a row that is too short
ApiRows == {<<Integer(7), Money(0)>>, <<Integer(7), Money(1)>>, <<Integer(7)>>}
\* the <id> of a path: "0" .. the decimal of MaxApiIndex, and "x"
ApiIds == {to_string(k) : k \in 0..MaxApiIndex} \cup {<<"x">>}

\* a database left by an earlier run: one table with one row
SeedDb ==
  add_table(Database_new(DbPath),
            insert(new("t", SchemaA), <<Integer(7), Money(0)>>, FALSE).table)

SaveOutcomes ==
  IF faults < MaxFaults
  THEN {"written", "create_failed", "write_failed", "flush_lost"}
  ELSE {"written"}

Faulted(outcome) == IF outcome = "written" THEN faults ELSE faults + 1

InitApi ==
  /\ server = "start"
  /\ disk \in {NoFile, BadFile, File(serialize(SeedDb))}
  /\ db = Database_new(DbPath)
  /\ last = NoOp
  /\ issued = <<>>
  /\ lock = 0 /\ poisoned = FALSE
  /\ pc = [c \in Clients |-> "idle"] /\ apc = "sleep"
  /\ pending = NoReply /\ resp = NoReply /\ faults = 0
  /\ frame = NoFrames /\ gui = NoGui

NoCall == [NoOp EXCEPT !.op = "none"]

\* a step that calls no Table and sends no response
Quiet == last' = NoCall /\ resp' = NoReply

\* fn rocket: load the file if there is one (a new database if it does not
\* load), else save a new database and go on whether that worked or not
Startup ==
  /\ server = "start"
  /\ \E outcome \in SaveOutcomes :
       IF disk.kind # "absent"
       THEN LET r == load_from_file(disk) IN
            /\ db' = IF r.status = "Ok" THEN r.data[1] ELSE Database_new(DbPath)
            /\ UNCHANGED <<disk, faults>>
       ELSE /\ db' = Database_new(DbPath)
            /\ disk' = save_to_file(Database_new(DbPath), disk, outcome).file
            /\ faults' = Faulted(outcome)
  /\ server' = "up"
  /\ Quiet
  /\ UNCHANGED <<issued, lock, poisoned, pc, apc, pending>>
  /\ UNCHANGED <<frame, gui>>

\* a request arrives and its handler (REST) or resolver (GraphQL) starts
Request(c) ==
  /\ server \in {"up", "graphql"} /\ pc[c] = "idle"
  /\ pc' = [pc EXCEPT ![c] = "waiting"]
  /\ Quiet
  /\ UNCHANGED <<db, issued, server, lock, poisoned, apc, disk, pending, faults>>
  /\ UNCHANGED <<frame, gui>>

\* a lock() that returns a guard without waiting for the holder
Lock_no_wait(c) ==
  /\ pc[c] = "waiting"
  /\ IF poisoned
     THEN /\ pc' = [pc EXCEPT ![c] = "idle"]
          /\ resp' = [NoReply EXCEPT !.client = c, !.op = "lock", !.status = "Err",
                                     !.err = "Failed to lock database"]
          /\ UNCHANGED lock
     ELSE /\ pc' = [pc EXCEPT ![c] = "body"]
          /\ lock' = c
          /\ resp' = NoReply
  /\ last' = NoCall
  /\ UNCHANGED <<db, issued, server, poisoned, apc, disk, pending, faults>>
  /\ UNCHANGED <<frame, gui>>

\* state.db.lock().map_err(..)?: blocks while the Mutex is held; on a
\* poisoned Mutex the handler returns the error and the guard is dropped
Lock(c) ==
  /\ pc[c] = "waiting" /\ lock = 0
  /\ IF poisoned
     THEN /\ pc' = [pc EXCEPT ![c] = "idle"]
          /\ resp' = [NoReply EXCEPT !.client = c, !.op = "lock", !.status = "Err",
                                     !.err = "Failed to lock database"]
          /\ UNCHANGED lock
     ELSE /\ pc' = [pc EXCEPT ![c] = "body"]
          /\ lock' = c
          /\ resp' = NoReply
  /\ last' = NoCall
  /\ UNCHANGED <<db, issued, server, poisoned, apc, disk, pending, faults>>
  /\ UNCHANGED <<frame, gui>>

\* the response a reply makes for a request
Response(c, op, table, id, values, reply) ==
  [client |-> c, op |-> op, table |-> table, id |-> id, values |-> values,
   status |-> reply.status, err |-> reply.err, records |-> reply.records,
   names |-> reply.names, schema |-> reply.schema, result |-> reply.result]

\* the body of a handler, from the lock to the save or to the return: an
\* Ok reply of a mutation goes on to save; any other reply is returned and
\* the guard dropped, which poisons the std::sync::Mutex of the REST adapter
\* when the handler panicked (the tokio Mutex of GraphQL does not poison)
Handle(c, op, table, id, values, reply, call) ==
  /\ pc[c] = "body"
  /\ db' = reply.db
  /\ last' = call
  /\ IF reply.status = "Ok" /\ reply.save
     THEN /\ pc' = [pc EXCEPT ![c] = "save"]
          /\ pending' = Response(c, op, table, id, values, reply)
          /\ resp' = NoReply
          /\ UNCHANGED <<lock, poisoned>>
     ELSE /\ pc' = [pc EXCEPT ![c] = "idle"]
          /\ lock' = 0
          /\ poisoned' = (poisoned \/ (reply.status = "Panic" /\ server = "up"))
          /\ resp' = Response(c, op, table, id, values, reply)
          /\ UNCHANGED pending
  /\ UNCHANGED <<issued, server, apc, disk, faults>>
  /\ UNCHANGED <<frame, gui>>

\* the Table call a handler made: none when the table was not found or the
\* id did not parse
Call(data, table, id, op, row, status, err, retId, retRows) ==
  IF position(data, table) = 0 \/ (id # <<>> /\ parse_u32(id) = None)
  THEN NoCall
  ELSE [NoOp EXCEPT !.op = op, !.t = position(data, table),
                    !.id = IF id = <<>> THEN 0 ELSE parse_u32(id)[1],
                    !.row = row, !.status = status, !.err = err,
                    !.retId = retId, !.retRows = retRows]

CreateTable(c, table, schema) ==
  /\ server = "up"
  /\ /\ Len(db.tables) < MaxApiTables
     /\ Handle(c, "create_table", table, <<>>, <<>>, api_create_table(db, table, schema),
               [NoOp EXCEPT !.op = "add_table"])

DeleteTable(c, table) ==
  /\ server = "up"
  /\ Handle(c, "delete_table", table, <<>>, <<>>, api_delete_table(db, table),
            [NoOp EXCEPT !.op = "delete_table"])

ListTables(c) ==
  /\ server = "up"
  /\ Handle(c, "list_tables", "", <<>>, <<>>, api_list_tables(db), NoCall)

GetTableDetails(c, table) ==
  /\ server = "up"
  /\ \E order \in Orders(IF position(db, table) = 0 THEN {}
                         ELSE DOMAIN db.tables[position(db, table)].rows) :
       Handle(c, "get_table_details", table, <<>>, <<>>,
              api_get_table_details(db, table, order), NoCall)

GetAll(c, table) ==
  /\ server = "up"
  /\ \E order \in Orders(IF position(db, table) = 0 THEN {}
                         ELSE DOMAIN db.tables[position(db, table)].rows) :
       LET r == api_get_all(db, table, order) IN
       Handle(c, "get_all", table, <<>>, <<>>, r, NoCall)

GetById(c, table, id) ==
  /\ server = "up"
  /\ LET r == api_get_by_id(db, table, id) IN
     Handle(c, "get_by_id", table, id, <<>>, r,
            Call(db, table, id, "get_row", <<>>, r.status, r.err, None, <<>>))

Create(c, table, values) ==
  /\ server = "up"
  /\ /\ position(db, table) # 0 => db.tables[position(db, table)].index < MaxApiIndex
     /\ \E overflow_checks \in BOOLEAN :
          LET r == api_create(db, table, values, overflow_checks) IN
          Handle(c, "create", table, <<>>, values, r,
                 Call(db, table, <<>>, "insert", values, r.status, r.err,
                      IF r.status = "Ok" THEN parse_u32(r.records[1].id) ELSE None, <<>>))

UpdateRecord(c, table, id, values) ==
  /\ server = "up"
  /\ LET r == api_update(db, table, id, values) IN
     Handle(c, "update", table, id, values, r,
            Call(db, table, id, "update", values, r.status, r.err, None, <<>>))

DeleteRecord(c, table, id) ==
  /\ server = "up"
  /\ LET r == api_delete(db, table, id) IN
     Handle(c, "delete", table, id, <<>>, r,
            Call(db, table, id, "delete", <<>>, r.status, r.err, None, <<>>))

\* the rows of the table of that name, none when there is no such table
RowsOf(data, table) ==
  IF position(data, table) = 0 THEN <<>> ELSE data.tables[position(data, table)].rows

IntersectTables(c, table1, table2) ==
  /\ server = "up"
  /\ \E collide \in Collisions({r.values : r \in Range(RowsOf(db, table1))}
                                  \cup {r.values : r \in Range(RowsOf(db, table2))}),
        other_order \in Orders(DOMAIN RowsOf(db, table2)),
        self_order \in Orders(DOMAIN RowsOf(db, table1)) :
       Handle(c, "intersection", table1, <<>>, <<>>,
              api_intersection(db, table1, table2, self_order, other_order, collide),
              NoCall)

\* save_to_file(&*db, &state.db_path)?; then the response, and the guard is
\* dropped
Save(c) ==
  /\ pc[c] = "save"
  /\ \E outcome \in SaveOutcomes :
       LET r == save_to_file(db, disk, outcome) IN
       /\ disk' = r.file
       /\ faults' = Faulted(outcome)
       /\ resp' = IF r.status = "Ok" THEN pending
                  ELSE [pending EXCEPT !.status = "Err", !.err = r.err, !.records = <<>>]
  /\ pc' = [pc EXCEPT ![c] = "idle"]
  /\ lock' = 0
  /\ pending' = NoReply
  /\ last' = NoCall
  /\ UNCHANGED <<db, issued, server, poisoned, apc>>
  /\ UNCHANGED <<frame, gui>>

\* fn start_autosave: interval.tick().await
AutoTick ==
  /\ server = "up" /\ apc = "sleep"
  /\ apc' = "waiting"
  /\ Quiet
  /\ UNCHANGED <<db, issued, server, lock, poisoned, pc, disk, pending, faults>>
  /\ UNCHANGED <<frame, gui>>

\* if let Ok(db) = db.lock(): a poisoned Mutex skips the save
AutoLock ==
  /\ apc = "waiting" /\ lock = 0
  /\ IF poisoned
     THEN apc' = "sleep" /\ UNCHANGED lock
     ELSE apc' = "save" /\ lock' = AutoId
  /\ Quiet
  /\ UNCHANGED <<db, issued, server, poisoned, pc, disk, pending, faults>>
  /\ UNCHANGED <<frame, gui>>

\* save_to_file(&*db, &db_path), an error only printed
AutoSave ==
  /\ apc = "save"
  /\ \E outcome \in SaveOutcomes :
       /\ disk' = save_to_file(db, disk, outcome).file
       /\ faults' = Faulted(outcome)
  /\ apc' = "sleep"
  /\ lock' = 0
  /\ Quiet
  /\ UNCHANGED <<db, issued, server, poisoned, pc, pending>>
  /\ UNCHANGED <<frame, gui>>

NextApi ==
  \/ Startup
  \/ \E c \in Clients : Request(c)
  \/ \E c \in Clients : Lock(c)
  \/ \E c \in Clients, table \in ApiNames, schema \in ApiSchemas : CreateTable(c, table, schema)
  \/ \E c \in Clients, table \in ApiNames : DeleteTable(c, table)
  \/ \E c \in Clients : ListTables(c)
  \/ \E c \in Clients, table \in ApiNames : GetTableDetails(c, table)
  \/ \E c \in Clients, table \in ApiNames : GetAll(c, table)
  \/ \E c \in Clients, table \in ApiNames, id \in ApiIds : GetById(c, table, id)
  \/ \E c \in Clients, table \in ApiNames, values \in ApiRows : Create(c, table, values)
  \/ \E c \in Clients, table \in ApiNames, id \in ApiIds, values \in ApiRows :
       UpdateRecord(c, table, id, values)
  \/ \E c \in Clients, table \in ApiNames, id \in ApiIds : DeleteRecord(c, table, id)
  \/ \E c \in Clients, table1 \in ApiNames, table2 \in ApiNames :
       IntersectTables(c, table1, table2)
  \/ \E c \in Clients : Save(c)
  \/ AutoTick
  \/ AutoLock
  \/ AutoSave

SpecApi == InitApi /\ [][NextApi]_vars

\* --------------------------------------------------- the GraphQL adapter
\* DbValueWrapper: one optional field per variant
DbValueWrapper(integer_value, money_value) ==
  [integer_value |-> integer_value, money_value |-> money_value]

\* impl From<DbValue> for DbValueWrapper
wrapper_from(value) ==
  IF value.kind = "Integer" THEN DbValueWrapper(Some(value.v), None)
  ELSE DbValueWrapper(None, Some(value.v))

\* impl From<DbValueWrapper> for DbValue: the first field that is set, and
\* a panic when none is
value_from(wrapper) ==
  IF wrapper.integer_value # None
  THEN [status |-> "Ok", value |-> Some(Integer(wrapper.integer_value[1]))]
  ELSE IF wrapper.money_value # None
  THEN [status |-> "Ok", value |-> Some(Money(wrapper.money_value[1]))]
  ELSE [status |-> "Panic", value |-> None]

\* impl From<SchemaInfo> for DbSchema: the columns, and no schema name
schema_from(info) == DbSchema("", info.columns)

gql_records_of(rows) ==
  [i \in 1..Len(rows) |->
     Record(to_string(rows[i].id),
            [j \in 1..Len(rows[i].values) |-> wrapper_from(rows[i].values[j])])]

\* Query::tables
gql_tables(data) ==
  [Reply(data, "Ok", "", <<>>, FALSE) EXCEPT
     !.names = [i \in 1..Len(data.tables) |-> data.tables[i].name]]

\* Query::table
gql_table(data, name) ==
  LET i == position(data, name) IN
  IF i = 0 THEN Reply(data, "Ok", "", <<>>, FALSE)
  ELSE [Reply(data, "Ok", "", <<>>, FALSE) EXCEPT
          !.names = <<data.tables[i].name>>, !.schema = Some(data.tables[i].schema)]

\* Query::records
gql_records(data, table_name, order) ==
  LET i == position(data, table_name) IN
  IF i = 0 THEN Reply(data, "Err", "Table not found", <<>>, FALSE)
  ELSE Reply(data, "Ok", "", gql_records_of(get_rows(data.tables[i], order)), FALSE)

\* Query::record
gql_record(data, table_name, id) ==
  LET i == position(data, table_name) IN
  IF i = 0 THEN Reply(data, "Err", "Table not found", <<>>, FALSE)
  ELSE IF parse_u32(id) = None THEN Reply(data, "Err", "invalid digit found in string", <<>>, FALSE)
  ELSE LET r == get_row(data.tables[i], parse_u32(id)[1]) IN
       IF r.status # "Ok" THEN Reply(data, "Ok", "", <<>>, FALSE)
       ELSE Reply(data, "Ok", "", gql_records_of(r.rows), FALSE)

\* Mutation::create_table, up to the save
gql_create_table(data, name, schema) ==
  Reply(add_table(data, new(name, schema_from(schema))), "Ok", "", <<>>, TRUE)

\* Mutation::insert_record, up to the save
gql_insert_record(data, table_name, values, overflow_checks) ==
  LET i == position(data, table_name) IN
  IF i = 0 THEN Reply(data, "Err", "Table not found", <<>>, FALSE)
  ELSE IF \E j \in 1..Len(values) : value_from(values[j]).status = "Panic"
  THEN Reply(data, "Panic", "Invalid DbValueWrapper: no value set", <<>>, FALSE)
  ELSE LET row == [j \in 1..Len(values) |-> value_from(values[j]).value[1]]
           r == insert(data.tables[i], row, overflow_checks)
           after == [data EXCEPT !.tables[i] = r.table]
       IN IF r.status # "Ok" THEN Reply(after, r.status, r.err, <<>>, FALSE)
          ELSE Reply(after, "Ok", "",
                     <<Record(to_string(r.id[1]),
                              [j \in 1..Len(row) |-> wrapper_from(row[j])])>>, TRUE)

\* Mutation::delete_record, up to the save: Ok(false), and no save, when
\* the table has no such row
gql_delete_record(data, table_name, id) ==
  LET i == position(data, table_name) IN
  IF i = 0 THEN Reply(data, "Err", "Table not found", <<>>, FALSE)
  ELSE IF parse_u32(id) = None THEN Reply(data, "Err", "invalid digit found in string", <<>>, FALSE)
  ELSE LET r == delete(data.tables[i], parse_u32(id)[1])
           after == [data EXCEPT !.tables[i] = r.table]
       IN [Reply(after, "Ok", "", <<>>, r.status = "Ok") EXCEPT
             !.result = Some(r.status = "Ok")]

\* the values of a mutation: wrappers of the rows of the REST requests, a
\* wrapper with two fields set, and one with none
GqlRows ==
  {[j \in 1..Len(row) |-> wrapper_from(row[j])] : row \in ApiRows}
    \cup {<<DbValueWrapper(Some(7), Some(1)), DbValueWrapper(None, Some(0))>>,
          <<DbValueWrapper(Some(7), None), DbValueWrapper(None, None)>>}

\* SchemaInfo: the columns of a schema
GqlSchemas == {[columns |-> schema.columns] : schema \in ApiSchemas}

\* a database file of an earlier run of the GraphQL adapter
GqlSeedDb ==
  add_table(Database_new("default"),
            insert(new("t", schema_from([columns |-> SchemaA.columns])),
                   <<Integer(7), Money(0)>>, FALSE).table)

InitGql ==
  /\ server = "schema"
  /\ disk \in {NoFile, BadFile, File(serialize(GqlSeedDb))}
  /\ db = Database_new("default")
  /\ last = NoOp
  /\ issued = <<>>
  /\ lock = 0 /\ poisoned = FALSE
  /\ pc = [c \in Clients |-> "idle"] /\ apc = "sleep"
  /\ pending = NoReply /\ resp = NoReply /\ faults = 0
  /\ frame = NoFrames /\ gui = NoGui

\* fn create_schema: the database of the file, or a new one named default
\* when it does not load; nothing is written
CreateSchema ==
  /\ server = "schema"
  /\ LET r == load_from_file(disk) IN
       db' = IF r.status = "Ok" THEN r.data[1] ELSE Database_new("default")
  /\ server' = "graphql"
  /\ Quiet
  /\ UNCHANGED <<issued, lock, poisoned, pc, apc, disk, pending, faults, frame, gui>>

GqlTables(c) ==
  /\ server = "graphql"
  /\ Handle(c, "tables", "", <<>>, <<>>, gql_tables(db), NoCall)

GqlTable(c, name) ==
  /\ server = "graphql"
  /\ Handle(c, "table", name, <<>>, <<>>, gql_table(db, name), NoCall)

GqlRecords(c, table) ==
  /\ server = "graphql"
  /\ \E order \in Orders(DOMAIN RowsOf(db, table)) :
       Handle(c, "records", table, <<>>, <<>>, gql_records(db, table, order), NoCall)

GqlRecord(c, table, id) ==
  /\ server = "graphql"
  /\ LET r == gql_record(db, table, id) IN
     Handle(c, "record", table, id, <<>>, r,
            Call(db, table, id, "get_row", <<>>,
                 get_row(db.tables[position(db, table)], parse_u32(id)[1]).status,
                 get_row(db.tables[position(db, table)], parse_u32(id)[1]).err, None, <<>>))

GqlCreateTable(c, name, schema) ==
  /\ server = "graphql"
  /\ /\ Len(db.tables) < MaxApiTables
     /\ Handle(c, "create_table", name, <<>>, <<>>, gql_create_table(db, name, schema),
               [NoOp EXCEPT !.op = "add_table"])

GqlInsertRecord(c, table, values) ==
  /\ server = "graphql"
  /\ /\ position(db, table) # 0 => db.tables[position(db, table)].index < MaxApiIndex
     /\ \E overflow_checks \in BOOLEAN :
          LET r == gql_insert_record(db, table, values, overflow_checks) IN
          Handle(c, "insert_record", table, <<>>, values, r,
                 IF r.status = "Panic" THEN NoCall
                 ELSE Call(db, table, <<>>, "insert",
                           [j \in 1..Len(values) |-> value_from(values[j]).value[1]],
                           r.status, r.err,
                           IF r.status = "Ok" THEN parse_u32(r.records[1].id) ELSE None, <<>>))

GqlDeleteRecord(c, table, id) ==
  /\ server = "graphql"
  /\ LET r == gql_delete_record(db, table, id) IN
     Handle(c, "delete_record", table, id, <<>>, r,
            Call(db, table, id, "delete", <<>>,
                 IF r.result = Some(TRUE) THEN "Ok" ELSE "Err",
                 IF r.result = Some(TRUE) THEN "" ELSE "Row not found", None, <<>>))

NextGql ==
  \/ CreateSchema
  \/ \E c \in Clients : Request(c)
  \/ \E c \in Clients : Lock(c)
  \/ \E c \in Clients : GqlTables(c)
  \/ \E c \in Clients, table \in ApiNames : GqlTable(c, table)
  \/ \E c \in Clients, table \in ApiNames : GqlRecords(c, table)
  \/ \E c \in Clients, table \in ApiNames, id \in ApiIds : GqlRecord(c, table, id)
  \/ \E c \in Clients, table \in ApiNames, schema \in GqlSchemas :
       GqlCreateTable(c, table, schema)
  \/ \E c \in Clients, table \in ApiNames, values \in GqlRows :
       GqlInsertRecord(c, table, values)
  \/ \E c \in Clients, table \in ApiNames, id \in ApiIds : GqlDeleteRecord(c, table, id)
  \/ \E c \in Clients : Save(c)

SpecGql == InitGql /\ [][NextGql]_vars

\* ------------------------------------------------------------- the GUI
\* DatabaseApp::save_database: serde_json::to_string_pretty and
\* std::fs::write (create, then write_all); true when both worked.
\* outcome is "written", "create_failed" or "write_failed".
save_database(data, file, outcome) ==
  CASE outcome = "written" -> [file |-> File(serialize(data)), ok |-> TRUE]
    [] outcome = "create_failed" -> [file |-> file, ok |-> FALSE]
    [] outcome = "write_failed" -> [file |-> BadFile, ok |-> FALSE]

GuiSaveOutcomes == SaveOutcomes \ {"flush_lost"}

\* DatabaseApp::close_database
close_database(app) ==
  [app EXCEPT !.open = FALSE, !.path = FALSE, !.selected_table = None,
              !.has_unsaved_changes = FALSE, !.show_close_confirmation = FALSE]

\* DatabaseApp::mark_as_modified
mark_as_modified(app) == [app EXCEPT !.has_unsaved_changes = TRUE]

\* the row that Add Row inserts: the default value of each column's kind
default_row(schema) ==
  [i \in 1..Len(schema.columns) |->
     IF schema.columns[i].column_type = "integer" THEN Integer(0) ELSE Money(0)]

\* the column lists offered to Create Table
GuiColumns == {SchemaA.columns}

\* what a text field can be edited to: a value of the same kind
GuiPayloads(value) ==
  IF value.kind = "Integer" THEN {Integer(0), Integer(7)} ELSE {Money(m) : m \in 0..1}

\* the value sequences one edit of a text field makes of a row's values
GuiEdits(values) ==
  UNION {{[values EXCEPT ![i] = p] : p \in GuiPayloads(values[i])} : i \in 1..Len(values)}

InitGui ==
  /\ server = "gui"
  /\ disk \in {NoFile, BadFile, File(serialize(SeedDb))}
  /\ db = Database_new("")
  /\ last = NoOp
  /\ issued = <<>>
  /\ lock = 0 /\ poisoned = FALSE
  /\ pc = [c \in Clients |-> "idle"] /\ apc = "sleep"
  /\ pending = NoReply /\ resp = NoReply /\ faults = 0
  /\ frame = NoFrames /\ gui = NoGui

\* the GUI runs on one thread and a panic ends it
GuiRunning == server = "gui" /\ ~gui.crashed

\* what a step of the GUI leaves alone
GuiFrame == UNCHANGED <<issued, server, lock, poisoned, pc, apc, pending, resp, frame>>

\* show_database_selection, Create: a new database at the chosen path, and
\* a save whose result is not looked at
GuiCreateDatabase(name) ==
  /\ GuiRunning /\ ~gui.open
  /\ \E outcome \in GuiSaveOutcomes :
       LET r == save_database(Database_new(name), disk, outcome) IN
       /\ db' = Database_new(name)
       /\ disk' = r.file
       /\ faults' = Faulted(outcome)
       /\ gui' = [gui EXCEPT !.open = TRUE, !.path = TRUE,
                             !.has_unsaved_changes = IF r.ok THEN FALSE ELSE @]
  /\ last' = NoCall
  /\ GuiFrame

\* show_database_selection, Open Database File: the path is taken, and the
\* database when the file reads and parses
GuiOpenDatabase ==
  /\ GuiRunning /\ ~gui.open
  /\ LET r == load_from_file(disk) IN
       IF r.status = "Ok"
       THEN /\ db' = r.data[1]
            /\ gui' = [gui EXCEPT !.open = TRUE, !.path = TRUE, !.has_unsaved_changes = FALSE]
       ELSE /\ db' = db
            /\ gui' = [gui EXCEPT !.path = TRUE]
  /\ last' = NoCall
  /\ UNCHANGED <<disk, faults>>
  /\ GuiFrame

\* show_tables_list: a table is chosen
GuiSelectTable(name) ==
  /\ GuiRunning /\ gui.open /\ position(db, name) # 0
  /\ gui.selected_table # Some(name)
  /\ gui' = [gui EXCEPT !.selected_table = Some(name)]
  /\ last' = NoCall
  /\ UNCHANGED <<db, disk, faults>>
  /\ GuiFrame

\* show_tables_list: the bin next to a table
GuiDeleteTable(name) ==
  /\ GuiRunning /\ gui.open /\ position(db, name) # 0
  /\ db' = delete_table(db, name).db
  /\ gui' = mark_as_modified(
              [gui EXCEPT !.selected_table = IF @ = Some(name) THEN None ELSE @])
  /\ last' = [NoOp EXCEPT !.op = "delete_table"]
  /\ UNCHANGED <<disk, faults>>
  /\ GuiFrame

\* show_schema_window, Create Table: no schema name is given
GuiCreateTable(name, columns) ==
  /\ GuiRunning /\ gui.open
  /\ Len(db.tables) < MaxGuiTables
  /\ db' = add_table(db, new(name, DbSchema("", columns)))
  /\ gui' = mark_as_modified(gui)
  /\ last' = [NoOp EXCEPT !.op = "add_table"]
  /\ UNCHANGED <<disk, faults>>
  /\ GuiFrame

\* the calls show_table_view makes at the end of a frame: the delete of the
\* row whose bin was clicked, one update per edited row, the insert of Add
\* Row; modified when one of them returned Ok
RECURSIVE apply_updates(_, _, _)
apply_updates(table, updates, n) ==
  IF n = 0 THEN [table |-> table, status |-> "Ok", modified |-> FALSE]
  ELSE LET before == apply_updates(table, updates, n - 1) IN
       IF before.status = "Panic" THEN before
       ELSE LET r == update(before.table, updates[n].id, updates[n].values) IN
            [table |-> r.table,
             status |-> IF r.status = "Panic" THEN "Panic" ELSE "Ok",
             modified |-> before.modified \/ r.status = "Ok"]

apply_frame(table, to_delete, updates, add_row, overflow_checks) ==
  LET d == IF to_delete = None
           THEN [table |-> table, status |-> "Err"]
           ELSE delete(table, to_delete[1])
      u == apply_updates(d.table, updates, Len(updates))
      i == IF add_row /\ u.status # "Panic"
           THEN insert(u.table, default_row(table.schema), overflow_checks)
           ELSE [table |-> u.table, status |-> "Err"]
  IN [table |-> i.table,
      status |-> IF u.status = "Panic" \/ i.status = "Panic" THEN "Panic" ELSE "Ok",
      modified |-> d.status = "Ok" \/ u.modified \/ i.status = "Ok"]

\* the edits of one frame: at most one row edited
GuiUpdates(table) ==
  {<<>>} \cup UNION {{<<[id |-> k, values |-> v]>> : v \in GuiEdits(table.rows[k].values)} :
                      k \in DOMAIN table.rows}

\* show_table_view: one frame on the selected table with a click or an edit
GuiTableView(to_delete, add_row) ==
  /\ GuiRunning /\ gui.open /\ gui.selected_table # None
  /\ position(db, gui.selected_table[1]) # 0
  /\ LET i == position(db, gui.selected_table[1])
         table == db.tables[i]
     IN /\ to_delete # None => to_delete[1] \in DOMAIN table.rows
        /\ add_row => table.index < MaxGuiIndex
        /\ \E updates \in GuiUpdates(table), overflow_checks \in BOOLEAN :
             LET r == apply_frame(table, to_delete, updates, add_row, overflow_checks) IN
             /\ to_delete # None \/ updates # <<>> \/ add_row
             /\ db' = [db EXCEPT !.tables[i] = r.table]
             /\ gui' = IF r.status = "Panic" THEN [gui EXCEPT !.crashed = TRUE]
                       ELSE IF r.modified THEN mark_as_modified(gui) ELSE gui
             /\ last' = [NoOp EXCEPT !.op = "frame", !.t = i, !.status = r.status]
  /\ UNCHANGED <<disk, faults>>
  /\ GuiFrame

\* the Save button, shown while there are unsaved changes
GuiSave ==
  /\ GuiRunning /\ gui.open /\ gui.has_unsaved_changes
  /\ \E outcome \in GuiSaveOutcomes :
       LET r == save_database(db, disk, outcome) IN
       /\ disk' = r.file
       /\ faults' = Faulted(outcome)
       /\ gui' = [gui EXCEPT !.has_unsaved_changes = IF r.ok THEN FALSE ELSE @]
  /\ last' = NoCall
  /\ UNCHANGED db
  /\ GuiFrame

\* a try_close_database that closes without looking at the flag
GuiTryClose_unasked ==
  /\ GuiRunning /\ (gui.open \/ gui.path)
  /\ ~gui.show_close_confirmation
  /\ gui' = close_database(gui) /\ db' = Database_new("")
  /\ last' = NoCall
  /\ UNCHANGED <<disk, faults>>
  /\ GuiFrame

\* a Save and Close that closes whether the save worked or not
GuiConfirmClose_anyway(choice) ==
  /\ GuiRunning /\ gui.show_close_confirmation
  /\ \E outcome \in GuiSaveOutcomes :
       LET r == save_database(db, disk, outcome)
           saved == [gui EXCEPT !.has_unsaved_changes = IF r.ok THEN FALSE ELSE @]
       IN CASE choice = "cancel" ->
                 /\ gui' = [gui EXCEPT !.show_close_confirmation = FALSE]
                 /\ UNCHANGED <<db, disk, faults>>
            [] choice = "discard" ->
                 /\ gui' = close_database(gui)
                 /\ db' = Database_new("")
                 /\ UNCHANGED <<disk, faults>>
            [] choice = "save" ->
                 /\ gui.open
                 /\ disk' = r.file
                 /\ faults' = Faulted(outcome)
                 /\ gui' = close_database(saved)
                 /\ db' = Database_new("")
  /\ last' = NoCall
  /\ GuiFrame

\* DatabaseApp::try_close_database (Close Database, or Escape)
GuiTryClose ==
  /\ GuiRunning /\ (gui.open \/ gui.path)
  /\ ~gui.show_close_confirmation
  /\ IF gui.has_unsaved_changes
     THEN gui' = [gui EXCEPT !.show_close_confirmation = TRUE] /\ db' = db
     ELSE gui' = close_database(gui) /\ db' = Database_new("")
  /\ last' = NoCall
  /\ UNCHANGED <<disk, faults>>
  /\ GuiFrame

\* DatabaseApp::handle_close_confirmation: Save and Close, Close without
\* Saving, or Cancel
GuiConfirmClose(choice) ==
  /\ GuiRunning /\ gui.show_close_confirmation
  /\ \E outcome \in GuiSaveOutcomes :
       LET r == save_database(db, disk, outcome)
           saved == [gui EXCEPT !.has_unsaved_changes = IF r.ok THEN FALSE ELSE @]
       IN CASE choice = "cancel" ->
                 /\ gui' = [gui EXCEPT !.show_close_confirmation = FALSE]
                 /\ UNCHANGED <<db, disk, faults>>
            [] choice = "discard" ->
                 /\ gui' = close_database(gui)
                 /\ db' = Database_new("")
                 /\ UNCHANGED <<disk, faults>>
            [] choice = "save" ->
                 /\ gui.open
                 /\ disk' = r.file
                 /\ faults' = Faulted(outcome)
                 /\ gui' = IF r.ok THEN close_database(saved) ELSE saved
                 /\ db' = IF r.ok THEN Database_new("") ELSE db
  /\ last' = NoCall
  /\ GuiFrame

NextGui ==
  \/ \E name \in {"d"} : GuiCreateDatabase(name)
  \/ GuiOpenDatabase
  \/ \E name \in ApiNames : GuiSelectTable(name)
  \/ \E name \in ApiNames : GuiDeleteTable(name)
  \/ \E name \in ApiNames, columns \in GuiColumns : GuiCreateTable(name, columns)
  \/ \E to_delete \in {None} \cup {Some(k) : k \in 0..MaxGuiIndex}, add_row \in BOOLEAN :
       GuiTableView(to_delete, add_row)
  \/ GuiSave
  \/ GuiTryClose
  \/ \E choice \in {"save", "discard", "cancel"} : GuiConfirmClose(choice)

SpecGui == InitGui /\ [][NextGui]_vars

\* ------------------------------------------ the GUI, intersection window
\* format!("Error: {}", e) for the error intersection returns
error_text(e) == CASE e = "Schemas do not match" -> "Error: Schemas do not match"

\* format!("{}_{}_intersection", current_table, other_table)
intersection_name(current_table, other_table) ==
  CASE current_table = "t" /\ other_table = "u" -> "t_u_intersection"
    [] current_table = "u" /\ other_table = "t" -> "u_t_intersection"

\* show_intersection_window, a click on a table: the number of columns and
\* their kinds are compared, then table1.intersection(table) is called
gui_intersection(table1, table, self_order, other_order, collide) ==
  IF Len(table1.schema.columns) # Len(table.schema.columns)
  THEN [error_message |-> Some("Tables have different number of columns"),
        result |-> None]
  ELSE IF \E i \in 1..Len(table.schema.columns) :
            table1.schema.columns[i].column_type # table.schema.columns[i].column_type
       THEN [error_message |-> Some("Column types do not match"), result |-> None]
       ELSE LET r == intersection(table1, table, self_order, other_order, collide) IN
            IF r.status = "Ok"
            THEN [error_message |-> None, result |-> Some(r.rows)]
            ELSE [error_message |-> Some(error_text(r.err)), result |-> None]

\* Save as New Table: the rows of the result inserted into a new table,
\* the result of each insert dropped
RECURSIVE insert_all(_, _, _)
insert_all(table, rows, n) ==
  IF n = 0 THEN table
  ELSE insert(insert_all(table, rows, n - 1), rows[n].values, FALSE).table

\* the row Integer(7), Money(0) in the order of the columns of a schema
seven_row(schema) ==
  [i \in 1..Len(schema.columns) |->
     IF schema.columns[i].column_type = "integer" THEN Integer(7) ELSE Money(0)]

\* a database opened from its file: table t holding one row, and table u
\* of the same or of another schema, empty or holding that row too
InitGuiInter ==
  /\ server = "gui"
  /\ \E schema \in {SchemaA, SchemaB, SchemaC, SchemaD, SchemaE} :
       \E other \in {new("u", schema),
                      insert(new("u", schema), seven_row(schema), FALSE).table} :
         db = [name |-> "d",
               tables |-> <<insert(new("t", SchemaA), seven_row(SchemaA), FALSE).table,
                            other>>]
  /\ disk = File(serialize(db))
  /\ last = NoOp
  /\ issued = <<>>
  /\ lock = 0 /\ poisoned = FALSE
  /\ pc = [c \in Clients |-> "idle"] /\ apc = "sleep"
  /\ pending = NoReply /\ resp = NoReply /\ faults = 0
  /\ frame = NoFrames
  /\ gui = [NoGui EXCEPT !.open = TRUE, !.path = TRUE]

\* show_table_view, Find Intersection
GuiFindIntersection ==
  /\ GuiRunning /\ gui.open /\ gui.selected_table # None
  /\ position(db, gui.selected_table[1]) # 0
  /\ ~gui.show_intersection_window
  /\ gui' = [gui EXCEPT !.show_intersection_window = TRUE,
                        !.intersection_result = None, !.intersection_table = None]
  /\ last' = NoCall
  /\ UNCHANGED <<db, disk, faults>>
  /\ GuiFrame

\* show_intersection_window: one of the other tables is chosen
GuiIntersect(table_name) ==
  /\ GuiRunning /\ gui.open /\ gui.show_intersection_window
  /\ gui.selected_table # None
  /\ table_name # gui.selected_table[1]
  /\ position(db, table_name) # 0 /\ position(db, gui.selected_table[1]) # 0
  /\ LET table1 == get_table(db, gui.selected_table[1])[1]
         table == get_table(db, table_name)[1]
     IN \E collide \in Collisions(ValuesOf(table1) \cup ValuesOf(table)),
           other_order \in Orders(DOMAIN table.rows) :
        \E self_order \in SelfOrders(table1, collide) :
          LET r == gui_intersection(table1, table, self_order, other_order, collide) IN
          /\ gui' = IF r.error_message = None
                    THEN [gui EXCEPT !.intersection_result = r.result,
                                     !.intersection_table = Some(table_name)]
                    ELSE gui
          /\ last' = [NoOp EXCEPT !.op = "intersection",
                                  !.t = position(db, gui.selected_table[1]),
                                  !.other = position(db, table_name),
                                  !.status = IF r.error_message = None THEN "Ok" ELSE "Err",
                                  !.err = IF r.error_message = None THEN ""
                                          ELSE r.error_message[1],
                                  !.retRows = IF r.result = None THEN <<>> ELSE r.result[1]]
  /\ UNCHANGED <<db, disk, faults>>
  /\ GuiFrame

\* show_intersection_window, Save as New Table, shown under a result that
\* is not empty
GuiSaveAsNewTable ==
  /\ GuiRunning /\ gui.open /\ gui.show_intersection_window
  /\ gui.selected_table # None /\ position(db, gui.selected_table[1]) # 0
  /\ gui.intersection_result # None /\ gui.intersection_table # None
  /\ gui.intersection_result[1] # <<>>
  /\ Len(db.tables) <= MaxGuiInterTables
  /\ {gui.selected_table[1], gui.intersection_table[1]} = ApiNames
  /\ LET table == get_table(db, gui.selected_table[1])[1]
         result == gui.intersection_result[1]
         new_table == insert_all(new(intersection_name(gui.selected_table[1],
                                                       gui.intersection_table[1]),
                                     DbSchema("", table.schema.columns)),
                                 result, Len(result))
     IN db' = add_table(db, new_table)
  /\ gui' = mark_as_modified([gui EXCEPT !.show_intersection_window = FALSE,
                                         !.intersection_result = None,
                                         !.intersection_table = None])
  /\ last' = [NoOp EXCEPT !.op = "add_table"]
  /\ UNCHANGED <<disk, faults>>
  /\ GuiFrame

\* show_intersection_window, the cross (or Escape)
GuiCloseIntersection ==
  /\ GuiRunning /\ gui.show_intersection_window
  /\ gui' = [gui EXCEPT !.show_intersection_window = FALSE,
                        !.intersection_result = None, !.intersection_table = None]
  /\ last' = NoCall
  /\ UNCHANGED <<db, disk, faults>>
  /\ GuiFrame

NextGuiInter ==
  \/ \E name \in ApiNames : GuiSelectTable(name)
  \/ \E name \in ApiNames : GuiDeleteTable(name)
  \/ GuiSave
  \/ GuiTryClose
  \/ \E choice \in {"save", "discard", "cancel"} : GuiConfirmClose(choice)
  \/ GuiFindIntersection
  \/ \E table_name \in ApiNames : GuiIntersect(table_name)
  \/ GuiSaveAsNewTable
  \/ GuiCloseIntersection

SpecGuiInter == InitGuiInter /\ [][NextGuiInter]_vars

\* the store behind one of its adapters: REST, GraphQL or the GUI
InitAdapter == InitApi \/ InitGql \/ InitGui
NextAdapter == NextApi \/ NextGql \/ NextGui
SpecAdapter == InitAdapter /\ [][NextAdapter]_vars

\* the store called directly, or behind the REST adapter
\* ------------------------------- handlers that run statement by statement
\* the server at work on one table, the file holding its snapshot
ConcDb == add_table(Database_new(DbPath), new("t", SchemaA))

InitConc ==
  /\ server = "up"
  /\ db = ConcDb
  /\ disk = File(serialize(ConcDb))
  /\ last = NoOp
  /\ issued = <<<<>>>>
  /\ lock = 0 /\ poisoned = FALSE
  /\ pc = [c \in Clients |-> "idle"] /\ apc = "sleep"
  /\ pending = NoReply /\ resp = NoReply /\ faults = 0
  /\ frame = NoFrames /\ gui = NoGui

\* fn create whose guard is dropped once the row is stored
CreateInsertRow_unlock(c, table_name, values) ==
  /\ server = "up" /\ pc[c] = "body"
  /\ position(db, table_name) # 0
  /\ db.tables[position(db, table_name)].index < MaxConcIndex
  /\ validate(db.tables[position(db, table_name)], values).status = "Ok"
  /\ LET i == position(db, table_name)
         id == db.tables[i].index
     IN /\ db' = [db EXCEPT !.tables[i].rows = map_insert(@, id, Row(id, values))]
        /\ frame' = [frame EXCEPT ![c] = [table |-> table_name, values |-> values,
                                          id |-> Some(id), seen |-> Some(db)]]
  /\ pc' = [pc EXCEPT ![c] = "stored"]
  /\ lock' = 0
  /\ Quiet
  /\ UNCHANGED <<issued, server, poisoned, apc, disk, pending, faults, gui>>

\* fn create up to the middle of Table::insert: the table is looked up,
\* the row validated and stored under the counter (self.rows.insert); a
\* missing table and a refused row return from the handler
CreateInsertRow(c, table_name, values) ==
  /\ server = "up" /\ pc[c] = "body"
  /\ LET r == api_create(db, table_name, values, FALSE) IN
     IF r.status # "Ok"
     THEN Handle(c, "create", table_name, <<>>, values, r,
                 Call(db, table_name, <<>>, "insert", values, r.status, r.err, None, <<>>))
     ELSE LET i == position(db, table_name)
              id == db.tables[i].index
          IN /\ id < MaxConcIndex
             /\ db' = [db EXCEPT !.tables[i].rows = map_insert(@, id, Row(id, values))]
             /\ frame' = [frame EXCEPT ![c] = [table |-> table_name, values |-> values,
                                               id |-> Some(id), seen |-> Some(db)]]
             /\ pc' = [pc EXCEPT ![c] = "stored"]
             /\ Quiet
             /\ UNCHANGED <<issued, server, lock, poisoned, apc, disk, pending, faults, gui>>

\* the rest of Table::insert and of fn create up to the save: self.index
\* += 1, the id returned is self.index - 1, and the record of the response
\* is built from it
CreateAdvance(c) ==
  /\ server = "up" /\ pc[c] = "stored"
  /\ LET i == position(db, frame[c].table)
         next == u32_wrapping_inc(db.tables[i].index)
         id == u32_wrapping_dec(next)
         after == [db EXCEPT !.tables[i].index = next]
     IN /\ db' = after
        /\ issued' = [issued EXCEPT ![i] = Append(@, id)]
        /\ pending' = Response(c, "create", frame[c].table, <<>>, frame[c].values,
                               Reply(after, "Ok", "", <<Record(to_string(id), frame[c].values)>>,
                                     TRUE))
        /\ last' = [NoOp EXCEPT !.op = "insert", !.t = i, !.row = frame[c].values,
                                !.status = "Ok", !.retId = Some(id)]
  /\ pc' = [pc EXCEPT ![c] = "save"]
  /\ frame' = [frame EXCEPT ![c] = NoFrame]
  /\ resp' = NoReply
  /\ UNCHANGED <<server, lock, poisoned, apc, disk, faults, gui>>

ConcNames == {"t"}

NextConc ==
  \/ \E c \in Clients : Request(c)
  \/ \E c \in Clients : Lock(c)
  \/ \E c \in Clients, table \in ConcNames, values \in ApiRows : CreateInsertRow(c, table, values)
  \/ \E c \in Clients : CreateAdvance(c)
  \/ \E c \in Clients, table \in ConcNames : GetAll(c, table)
  \/ \E c \in Clients, table \in ConcNames, id \in ApiIds, values \in ApiRows :
       UpdateRecord(c, table, id, values)
  \/ \E c \in Clients, table \in ConcNames, id \in ApiIds : DeleteRecord(c, table, id)
  \/ \E c \in Clients : Save(c)
  \/ AutoTick
  \/ AutoLock
  \/ AutoSave

SpecConc == InitConc /\ [][NextConc]_vars

\* the steps of the handler of client c between its lock and its save
HandlerStep(c) ==
  \/ \E table \in ConcNames, values \in ApiRows : CreateInsertRow(c, table, values)
  \/ CreateAdvance(c)
  \/ \E table \in ConcNames : GetAll(c, table)
  \/ \E table \in ConcNames, id \in ApiIds, values \in ApiRows :
       UpdateRecord(c, table, id, values)
  \/ \E table \in ConcNames, id \in ApiIds : DeleteRecord(c, table, id)

\* fair scheduling: a handler that has the lock goes on, the autosave task
\* runs, and a caller that finds the lock free again and again gets it;
\* requests and ticks come as they please
FairConc ==
  /\ \A c \in Clients :
       SF_vars(Lock(c)) /\ WF_vars(HandlerStep(c)) /\ WF_vars(Save(c))
  /\ SF_vars(AutoLock) /\ WF_vars(AutoSave)

SpecConcFair == SpecConc /\ FairConc

\* ------------------------------------------------- save and load again
\* one or two tables, just created
InitRound ==
  /\ db \in {[name |-> "db", tables |-> <<new("A", SchemaA)>>],
              [name |-> "db", tables |-> <<new("A", SchemaA), new("B", SchemaC)>>]}
  /\ last = NoOp
  /\ issued = [t \in 1..Len(db.tables) |-> <<>>]
  /\ NoAdapter

\* insert of a row whose Money is not a finite number: validate looks at
\* the kind of a value only
InsertNaN(t) ==
  /\ Running
  /\ db.tables[t].index < MaxRoundIndex
  /\ LET row == [i \in 1..Len(db.tables[t].schema.columns) |->
                  IF db.tables[t].schema.columns[i].column_type = "money"
                  THEN Money(NaN) ELSE Integer(7)]
         r == insert(db.tables[t], row, FALSE)
     IN /\ db' = [db EXCEPT !.tables[t] = r.table]
        /\ last' = [NoOp EXCEPT !.op = "insert", !.t = t, !.row = row,
                                !.status = r.status, !.err = r.err, !.retId = r.id]
        /\ issued' = [issued EXCEPT ![t] = Append(@, r.id[1])]
  /\ UNCHANGED apiVars

\* the rows handed to insert and update: rows of either schema and a row
\* that is too short
RoundRows == ApiRows \cup {<<Money(0), Integer(7)>>}

RoundInsert(t, row) == db.tables[t].index < MaxRoundIndex /\ Insert(t, row)

\* save_to_file(&db, path) that writes the file, then load_from_file(path)
\* in place of the database
SaveAndLoad ==
  /\ Running
  /\ LET saved == save_to_file(db, disk, "written")
         r == load_from_file(saved.file)
     IN /\ disk' = saved.file
        /\ db' = IF r.status = "Ok" THEN r.data[1] ELSE db
        /\ last' = [NoOp EXCEPT !.op = "load", !.status = r.status, !.err = r.err]
  /\ UNCHANGED <<issued, server, lock, poisoned, pc, apc, pending, resp, faults, frame, gui>>

NextRound ==
  \/ \E t \in Tables, row \in RoundRows : RoundInsert(t, row)
  \/ \E t \in Tables : InsertNaN(t)
  \/ \E t \in Tables, id \in Ids : Delete(t, id)
  \/ \E t \in Tables, id \in Ids, row \in RoundRows : Update(t, id, row)
  \/ SaveAndLoad

SpecRound == InitRound /\ [][NextRound]_vars

\* -------------------------------------- the calls of Table, two tables
\* one table, or two of equal or of different schemas, just created
InitTable ==
  /\ db \in {[name |-> "db", tables |-> <<new("A", SchemaA)>>],
              [name |-> "db", tables |-> <<new("A", SchemaA), new("B", SchemaA)>>],
              [name |-> "db", tables |-> <<new("A", SchemaA), new("B", SchemaC)>>]}
  /\ last = NoOp
  /\ issued = [t \in 1..Len(db.tables) |-> <<>>]
  /\ NoAdapter

\* an intersection that renames self after other when it succeeds
Intersect_renaming(t, o) ==
  /\ Running
  /\ \E collide \in Collisions(ValuesOf(db.tables[t]) \cup ValuesOf(db.tables[o])),
        other_order \in Orders(DOMAIN db.tables[o].rows) :
     \E self_order \in SelfOrders(db.tables[t], collide) :
       LET r == intersection(db.tables[t], db.tables[o], self_order, other_order, collide) IN
       /\ last' = [NoOp EXCEPT !.op = "intersection", !.t = t, !.other = o,
                               !.status = r.status, !.err = r.err, !.retRows = r.rows]
       /\ db' = IF r.status = "Ok" THEN [db EXCEPT !.tables[t].name = db.tables[o].name]
                ELSE db
  /\ UNCHANGED issued
  /\ UNCHANGED apiVars

\* self.intersection(other) among the other calls
Intersect(t, o) ==
  /\ Running
  /\ \E collide \in Collisions(ValuesOf(db.tables[t]) \cup ValuesOf(db.tables[o])),
        other_order \in Orders(DOMAIN db.tables[o].rows) :
     \E self_order \in SelfOrders(db.tables[t], collide) :
       LET r == intersection(db.tables[t], db.tables[o], self_order, other_order, collide) IN
       last' = [NoOp EXCEPT !.op = "intersection", !.t = t, !.other = o,
                            !.status = r.status, !.err = r.err, !.retRows = r.rows]
  /\ UNCHANGED <<db, issued>>
  /\ UNCHANGED apiVars

NextTable ==
  \/ \E t \in Tables, row \in RoundRows : RoundInsert(t, row)
  \/ \E t \in Tables, id \in Ids : Delete(t, id)
  \/ \E t \in Tables, id \in Ids, row \in RoundRows : Update(t, id, row)
  \/ \E t \in Tables, id \in Ids : GetRow(t, id)
  \/ \E t \in Tables : GetRows(t)
  \/ \E t \in Tables, o \in Tables : Intersect(t, o)

SpecTable == InitTable /\ [][NextTable]_vars

\* ------------------------------------ the counter at the top of its range
\* a table that has accepted u32::MAX - 1 inserts: the counter at
\* u32::MAX - 1, every row deleted again but, possibly, the row of id 0.
\* The ids the inserts before this state returned are not listed in issued.
InitTop ==
  /\ \E D \in SUBSET {0} :
       \E f \in [D -> ValidRows(new("A", SchemaA))] :
         db = [name |-> "db",
               tables |-> <<[new("A", SchemaA) EXCEPT
                               !.index = u32_wrapping_dec(U32Max),
                               !.rows = [k \in D |-> Row(k, f[k])]]>>]
  /\ last = NoOp
  /\ issued = <<<<>>>>
  /\ NoAdapter

\* the ids around the top of the range
TopIds == {u32_wrapping_dec(U32Max), U32Max, 0, 1}

\* Table::insert with the counter at u32::MAX - 1, at u32::MAX, and after
InsertNearTop(t, row) ==
  /\ Running
  /\ \/ db.tables[t].index \in {u32_wrapping_dec(U32Max), U32Max}
     \/ db.tables[t].index >= 0 /\ db.tables[t].index < MaxTopIndex
  /\ \E overflow_checks \in BOOLEAN :
       LET r == insert(db.tables[t], row, overflow_checks) IN
       /\ db' = [db EXCEPT !.tables[t] = r.table]
       /\ last' = [NoOp EXCEPT !.op = "insert", !.t = t, !.row = row,
                               !.status = r.status, !.err = r.err, !.retId = r.id]
       /\ issued' = IF r.status = "Ok"
                    THEN [issued EXCEPT ![t] = Append(@, r.id[1])]
                    ELSE issued
  /\ UNCHANGED apiVars

NextTop ==
  \/ \E t \in Tables, row \in InputRows : InsertNearTop(t, row)
  \/ \E t \in Tables, id \in TopIds : Delete(t, id)
  \/ \E t \in Tables, id \in TopIds, row \in InputRows : Update(t, id, row)
  \/ \E t \in Tables, id \in TopIds : GetRow(t, id)
  \/ \E t \in Tables : GetRows(t)

SpecTop == InitTop /\ [][NextTop]_vars

InitAny == Init \/ InitApi
NextAny == Next \/ NextApi
SpecAny == InitAny /\ [][NextAny]_vars

\* ----------------------------------------------------------- the claims
\* the error taxonomy of the messages
SchemaMismatch == {"Row length does not match schema length",
                   "Value type does not match schema type",
                   "Schemas do not match"}
NotFound == {"Row not found", "Table not found"}

\* the table the last call was made on
LastTable == db.tables[last.t]

\* C1: every stored row has as many values as the schema has columns, and
\* the kind of each value is the kind its column declares.
C1_RowsMatchSchema ==
  \A t \in Tables :
    \A k \in DOMAIN db.tables[t].rows :
      LET values == db.tables[t].rows[k].values
          columns == db.tables[t].schema.columns
      IN /\ Len(values) = Len(columns)
         /\ \A i \in 1..Len(values) : value_type(values[i]) = columns[i].column_type

\* a table holding two rows, the last call a successful update
C1_Witness ==
  /\ last.op = "update" /\ last.status = "Ok"
  /\ Cardinality(DOMAIN LastTable.rows) >= 2

\* C2: the ids returned by the successful inserts into a table start at 0
\* and increase strictly, so none is returned twice, deletions or not.
C2_IdsIncrease ==
  \A t \in Tables :
    /\ Len(issued[t]) > 0 => issued[t][1] = 0
    /\ \A i, j \in 1..Len(issued[t]) : i < j => u32_lt(issued[t][i], issued[t][j])

\* insert -> 0, delete 0, insert -> 1
C2_Witness ==
  /\ last.op = "insert" /\ last.retId = Some(1)
  /\ issued[last.t] = <<0, 1>>
  /\ DOMAIN LastTable.rows = {1}

\* C3: insert of values that match the schema succeeds and returns an id,
\* and get_row of that id right after it returns the row of that id with
\* these values; through the REST adapter, the create handler then goes on
\* to save with the record of that id and these values, and when it has
\* answered Ok, get by id of the id in the answer returns the same values.
C3_InsertThenGet ==
  /\ (last.op = "insert" /\ validate(LastTable, last.row).status = "Ok")
       => /\ last.status = "Ok"
          /\ last.retId # None
          /\ get_row(LastTable, last.retId[1]) =
               [status |-> "Ok", err |-> "", rows |-> <<Row(last.retId[1], last.row)>>]
          /\ server = "up" =>
               /\ pending.op = "create" /\ pending.status = "Ok"
               /\ pending.records = <<Record(to_string(last.retId[1]), last.row)>>
  /\ (resp.op = "create" /\ resp.status = "Ok")
       => /\ Len(resp.records) = 1
          /\ resp.records[1].values = resp.values
          /\ LET r == api_get_by_id(db, resp.table, resp.records[1].id) IN
             /\ r.status = "Ok"
             /\ r.records = <<Record(resp.records[1].id, resp.values)>>

\* a create answered Ok for a second table, the first one holding a row
C3_Witness ==
  /\ resp.op = "create" /\ resp.status = "Ok"
  /\ Len(db.tables) = 2
  /\ \A i \in 1..2 : DOMAIN db.tables[i].rows # {}

\* C4: update on an id that is not in the table fails with NotFound, for
\* valid and invalid values alike (it does not panic).
C4_UpdateMissingIsNotFound ==
  (last.op = "update" /\ last.id \notin DOMAIN LastTable.rows)
    => (last.status = "Err" /\ last.err \in NotFound)

\* C5: an insert that fails validation leaves the rows and the counter as
\* they were, and returns no id.
C5_FailedInsertChangesNothing ==
  [][(last'.op = "insert" /\ validate(db.tables[last'.t], last'.row).status # "Ok")
       => (last'.status = "Err" /\ last'.err \in SchemaMismatch /\ last'.retId = None
           /\ db' = db /\ issued' = issued)]_vars

\* a table with a row in it, the last call an insert refused for a wrong kind
C5_Witness ==
  /\ last.op = "insert" /\ last.status = "Err"
  /\ last.err = "Value type does not match schema type"
  /\ LastTable.index > 0 /\ DOMAIN LastTable.rows # {}

\* C6: update of an existing id with values that match the schema succeeds,
\* and get_row(id) then returns the row of that id with exactly these values.
C6_UpdateReplacesValues ==
  (/\ last.op = "update"
   /\ last.id \in DOMAIN LastTable.rows
   /\ validate(LastTable, last.row).status = "Ok")
    => /\ last.status = "Ok"
       /\ get_row(LastTable, last.id) =
            [status |-> "Ok", err |-> "", rows |-> <<Row(last.id, last.row)>>]

\* a successful update of one of three rows
C6_Witness ==
  /\ last.op = "update" /\ last.status = "Ok"
  /\ Cardinality(DOMAIN LastTable.rows) = 3
  /\ \E k \in DOMAIN LastTable.rows : LastTable.rows[k].values # last.row

\* C7: update of an existing id with values that fail validation returns
\* SchemaMismatch and changes no row and not the counter.
C7_FailedUpdateChangesNothing ==
  [][(/\ last'.op = "update"
      /\ last'.id \in DOMAIN db.tables[last'.t].rows
      /\ validate(db.tables[last'.t], last'.row).status # "Ok")
       => (last'.status = "Err" /\ last'.err \in SchemaMismatch /\ db' = db)]_vars

\* an update of an existing row refused for a wrong length
C7_Witness ==
  /\ last.op = "update" /\ last.status = "Err"
  /\ last.err = "Row length does not match schema length"
  /\ last.id \in DOMAIN LastTable.rows

\* C8: delete of a present id removes that row and no other, and get_row of
\* the id then fails NotFound; delete of an absent id (deleted before, or
\* never inserted) fails NotFound and changes nothing.
C8_DeleteOnce ==
  [][last'.op = "delete" =>
       LET before == db.tables[last'.t]
           after == db'.tables[last'.t]
           id == last'.id
       IN IF id \in DOMAIN before.rows
          THEN /\ last'.status = "Ok"
               /\ DOMAIN after.rows = (DOMAIN before.rows) \ {id}
               /\ \A k \in DOMAIN after.rows : after.rows[k] = before.rows[k]
               /\ after.index = before.index
               /\ get_row(after, id).status = "Err"
               /\ get_row(after, id).err \in NotFound
          ELSE /\ last'.status = "Err" /\ last'.err \in NotFound
               /\ db' = db]_vars

\* the second delete of an id that an insert returned, other rows present
C8_Witness ==
  /\ last.op = "delete" /\ last.status = "Err"
  /\ last.id \in Range(issued[last.t])
  /\ DOMAIN LastTable.rows # {}

\* self and other of the last intersection
LastSelf == db.tables[last.t]
LastOther == db.tables[last.other]

\* C9: for equal schemas, intersection returns exactly the rows of other
\* whose value sequence is == to the value sequence of a row of self.
C9_IntersectionExact ==
  (last.op = "intersection" /\ last.status = "Ok")
    => Range(last.retRows) =
         {LastOther.rows[k] : k \in {k \in DOMAIN LastOther.rows :
            \E j \in DOMAIN LastSelf.rows :
              vec_eq(LastSelf.rows[j].values, LastOther.rows[k].values)}}

\* C10: a row of other that differs from a row of self only in a Money that
\* is within the tolerance, and not the same float, is in the intersection.
C10_ToleranceMatch ==
  (last.op = "intersection" /\ last.status = "Ok")
    => \A k \in DOMAIN LastOther.rows, j \in DOMAIN LastSelf.rows :
         (/\ LastSelf.rows[j].values # LastOther.rows[k].values
          /\ vec_eq(LastSelf.rows[j].values, LastOther.rows[k].values))
           => LastOther.rows[k] \in Range(last.retRows)
\* C11: two values that are equal hash alike, so that a set keyed by value
\* sequences finds every member that compares equal: for the value
\* sequences the two tables hold, == implies the same hash.
C11_EqImpliesSameHash ==
  \A t \in Tables, u \in Tables :
    \A a \in ValuesOf(db.tables[t]), b \in ValuesOf(db.tables[u]) :
      /\ \A i \in 1..Len(a) : eq(a[i], b[i]) => hash(a[i]) = hash(b[i])
      /\ vec_eq(a, b) => vec_hash(a) = vec_hash(b)

\* two schemas have the same columns: as many, and at each position the
\* same column name and the same kind
SameColumns(s1, s2) ==
  /\ Len(s1.columns) = Len(s2.columns)
  /\ \A i \in 1..Len(s1.columns) :
       /\ s1.columns[i].name = s2.columns[i].name
       /\ s1.columns[i].column_type = s2.columns[i].column_type

C13_OtherRowsOnce ==
  (last.op = "intersection" /\ last.status = "Ok")
    => /\ \A i \in 1..Len(last.retRows) :
            /\ last.retRows[i].id \in DOMAIN LastOther.rows
            /\ last.retRows[i] = LastOther.rows[last.retRows[i].id]
       /\ \A i, j \in 1..Len(last.retRows) :
            last.retRows[i].id = last.retRows[j].id => i = j
       /\ \A k1, k2 \in DOMAIN LastOther.rows :
            (/\ k1 # k2
             /\ LastOther.rows[k1].values = LastOther.rows[k2].values
             /\ \E j \in DOMAIN LastSelf.rows :
                  vec_eq(LastSelf.rows[j].values, LastOther.rows[k1].values))
              => {LastOther.rows[k1], LastOther.rows[k2]} \subseteq Range(last.retRows)

\* C14: intersection leaves both tables as they were, rows, counter, schema
\* and name, whether it succeeds or fails.
C14_IntersectionReadOnly ==
  [][last'.op = "intersection"
       => \A t \in {last'.t, last'.other} :
            /\ db'.tables[t].rows = db.tables[t].rows
            /\ db'.tables[t].index = db.tables[t].index
            /\ db'.tables[t].schema = db.tables[t].schema
            /\ db'.tables[t].name = db.tables[t].name]_vars

\* a successful intersection of two tables that hold rows, with a result
C14_Witness ==
  /\ last.op = "intersection" /\ last.status = "Ok" /\ last.t # last.other
  /\ Len(last.retRows) > 0
  /\ Cardinality(DOMAIN LastSelf.rows) = 2
\* C15: no failure is fatal to the service: the Mutex of the database is
\* never left poisoned by a handler that failed, and no later request is
\* refused for not getting the lock.
C15_NoFatalError ==
  /\ poisoned = FALSE
  /\ resp.err # "Failed to lock database"
\* a step in which an adapter has made a successful mutating call: a table
\* added or removed, or an insert, update or delete that returned Ok
StoreMutated ==
  \/ last'.op \in {"insert", "update", "delete"} /\ last'.status = "Ok"
  \/ last'.op \in {"add_table", "delete_table", "frame"} /\ last'.status = "Ok" /\ db' # db

\* a step that writes the snapshot of a database to the file: the file then
\* holds it, unless the write has failed
SnapshotOf(data) == disk' = File(serialize(data)) \/ faults' # faults

\* behind a lock, a successful mutation goes on to the save with the lock
\* held, and the save writes the snapshot of the database as the mutation
\* left it and only then gives the lock back
SavedUnderLock ==
  /\ (StoreMutated /\ server \in {"up", "graphql"})
       => \E c \in Clients : pc'[c] = "save" /\ lock' = c /\ pending'.status = "Ok"
  /\ \A c \in Clients :
       (pc[c] = "save" /\ pc'[c] # "save")
         => (lock = c /\ db' = db /\ SnapshotOf(db) /\ lock' = 0)

\* C16 as stated: every successful mutating operation issued through an
\* adapter, the GUI included, is followed by a write of the snapshot of
\* the database it left, before the lock is given back.
C16_MutationThenSnapshot ==
  [][/\ SavedUnderLock
     /\ (StoreMutated /\ server = "gui") => SnapshotOf(db')]_vars

\* C16 amended: every successful mutating operation issued through the REST
\* or the GraphQL adapter is followed, before the lock is released, by a
\* write of the snapshot of the database it left; in the GUI it sets the
\* unsaved-changes flag and writes nothing.
C16_MutationThenSnapshotOrFlag ==
  [][/\ SavedUnderLock
     /\ (StoreMutated /\ server = "gui")
          => (gui'.has_unsaved_changes /\ disk' = disk)]_vars

\* the REST adapter has answered Ok to an update, and the file holds the
\* database with the new values
C16_Witness ==
  /\ server = "up" /\ resp.op = "update" /\ resp.status = "Ok"
  /\ lock = 0 /\ disk = File(serialize(db))
  /\ \E i \in Tables : \E k \in DOMAIN db.tables[i].rows :
       db.tables[i].rows[k].values = resp.values /\ resp.values # <<Integer(7), Money(0)>>
\* C17: access to the shared Database is mutually exclusive: a handler or
\* resolver, reads included, and the autosave hold the lock from before they
\* touch the database until after their snapshot write, so at most one of
\* them is between its lock() and the drop of its guard, every step that
\* reads or writes the database or writes the file is the lock holder's,
\* and the lock is not free while one of them is at work. The GUI owns its
\* Database on one thread and runs no handler.
InCritical(c) == pc[c] \in {"body", "stored", "save"}

MutexHeld ==
  /\ \A c \in Clients : InCritical(c) => lock = c
  /\ apc = "save" => lock = AutoId
  /\ \A c \in Clients, d \in Clients : (InCritical(c) /\ InCritical(d)) => c = d
  /\ \A c \in Clients : ~(InCritical(c) /\ apc = "save")
  /\ lock # 0 => (apc = "save" \/ \E c \in Clients : InCritical(c))
  /\ server = "gui" => (lock = 0 /\ apc = "sleep" /\ \A c \in Clients : pc[c] = "idle")

C17_MutualExclusion ==
  [][/\ MutexHeld'
     /\ \A c \in Clients : (InCritical(c) /\ pc'[c] # pc[c]) => lock = c
     /\ (apc = "save" /\ apc' # apc) => lock = AutoId
     /\ ((db' # db \/ disk' # disk) /\ server \in {"up", "graphql"}) =>
          (lock # 0 /\ (lock' = lock \/ lock' = 0))]_vars

\* a handler writes its snapshot under the lock while the other client and
\* the autosave wait for it
C17_Witness ==
  /\ server = "up" /\ apc = "waiting"
  /\ \E c \in Clients, d \in Clients :
       c # d /\ pc[c] = "save" /\ lock = c /\ pc[d] = "waiting" /\ pending.op = "create"

\* C18: concurrent callers are ordered by lock acquisition: the create
\* that runs statement by statement ends with the database and the record
\* that the whole handler makes of the database it found when it started,
\* no other step changes the database while a handler is between its lock
\* and its return, the ids returned by the inserts into a table are
\* pairwise distinct, and a row leaves the table only by a successful
\* delete of its id.
DistinctIds ==
  \A t \in DOMAIN issued : \A i \in 1..Len(issued[t]), j \in 1..Len(issued[t]) :
    issued[t][i] = issued[t][j] => i = j

C18_SerialByLock ==
  [][/\ \A c \in Clients :
          (pc[c] = "stored" /\ pc'[c] = "save") =>
            LET r == api_create(frame[c].seen[1], frame[c].table, frame[c].values, FALSE) IN
            /\ db' = r.db
            /\ pending'.status = r.status /\ pending'.records = r.records
            /\ get_row(db'.tables[1], parse_u32(r.records[1].id)[1]).rows
                 = <<Row(parse_u32(r.records[1].id)[1], frame[c].values)>>
     /\ \A c \in Clients : (InCritical(c) /\ pc'[c] = pc[c]) => db' = db
     /\ DistinctIds'
     /\ \A k \in DOMAIN db.tables[1].rows :
          k \in DOMAIN db'.tables[1].rows
            \/ (last'.op = "delete" /\ last'.id = k /\ last'.status = "Ok")]_vars

\* the second of two inserts into the same table is about to be saved
\* while the other client, whose request came in meanwhile, waits for the
\* lock
C18_Witness ==
  /\ Len(issued[1]) = 2 /\ issued[1][1] # issued[1][2]
  /\ \E c \in Clients, d \in Clients :
       /\ c # d /\ pc[c] = "save" /\ lock = c /\ pending.op = "create" /\ pc[d] = "waiting"
       /\ DOMAIN db.tables[1].rows = {0, 1}

\* C19: when the snapshot write after a successful mutation fails, that is
\* leaves the file without the snapshot of the database, the caller gets
\* the failure and the mutation stays in memory, so the database and the
\* file differ.
C19_SaveFailureSurfaced ==
  [][\A c \in Clients :
       (pc[c] = "save" /\ pc'[c] = "idle" /\ disk' # File(serialize(db))) =>
         /\ resp'.client = c /\ resp'.status = "Err"
         /\ db' = db
         /\ (disk'.kind = "doc" => deserialize(disk'.doc) # db')]_vars

\* C20: for every database reachable by the core operations, loading the
\* snapshot that saving it produced succeeds and yields the same name, the
\* same tables in the same order, and per table the same schema, rows by
\* id and counter.
C20_RoundTrip ==
  [][last'.op = "load" =>
       /\ last'.status = "Ok"
       /\ db'.name = db.name /\ Len(db'.tables) = Len(db.tables)
       /\ \A t \in Tables :
            /\ db'.tables[t].name = db.tables[t].name
            /\ db'.tables[t].schema = db.tables[t].schema
            /\ db'.tables[t].index = db.tables[t].index
            /\ DOMAIN db'.tables[t].rows = DOMAIN db.tables[t].rows
            /\ \A k \in DOMAIN db.tables[t].rows :
                 /\ db'.tables[t].rows[k].id = k
                 /\ db'.tables[t].rows[k].values = db.tables[t].rows[k].values]_vars

\* C21: get_table and get_table_mut resolve to the first table, in
\* insertion order, whose name is the one given, and to none exactly when
\* no table has that name; a request routed by name changes no table but
\* the earliest of that name, reads the rows of that one, and fails when
\* there is none.
FirstNamed(data, name) ==
  LET S == {i \in 1..Len(data.tables) : data.tables[i].name = name} IN
  IF S = {} THEN 0 ELSE CHOOSE i \in S : \A j \in S : i <= j

\* the answer of the handler of client c that ends its body in this step
Answer(c) == IF pc'[c] = "save" THEN pending' ELSE resp'
Answered(c) == pc[c] = "body" /\ pc'[c] \in {"idle", "save"}

RoutedByName == {"get_all", "get_by_id", "create", "update", "delete", "get_table_details",
                 "table", "records", "record", "insert_record", "delete_record"}

C21_FirstByName ==
  [][/\ \A n \in ApiNames :
          get_table(db', n) = IF FirstNamed(db', n) = 0 THEN None
                              ELSE Some(db'.tables[FirstNamed(db', n)])
     /\ \A c \in Clients :
          (Answered(c) /\ Answer(c).op \in RoutedByName) =>
            LET q == Answer(c)
                f == FirstNamed(db, q.table)
            IN /\ Len(db'.tables) = Len(db.tables)
               /\ \A i \in 1..Len(db.tables) : i # f => db'.tables[i] = db.tables[i]
               /\ (f = 0 /\ q.op # "table") => q.status = "Err"
               /\ (f # 0 /\ q.op \in {"get_all", "records"}) =>
                    /\ q.status = "Ok"
                    /\ {q.records[k].id : k \in 1..Len(q.records)}
                         = {to_string(k) : k \in DOMAIN db.tables[f].rows}
               /\ (q.op \in {"create", "insert_record"} /\ q.status = "Ok") =>
                    /\ DOMAIN db'.tables[f].rows
                         = DOMAIN db.tables[f].rows \cup {db.tables[f].index}
                    /\ db'.tables[f].index = db.tables[f].index + 1]_vars

\* two tables of one name, the earlier with a row and the later empty, and
\* the rows asked for by that name are those of the earlier
C21_Witness ==
  /\ Len(db.tables) = 2 /\ db.tables[1].name = db.tables[2].name
  /\ DOMAIN db.tables[1].rows = {0} /\ DOMAIN db.tables[2].rows = {}
  /\ resp.op \in {"get_all", "records"} /\ resp.table = db.tables[1].name
  /\ resp.status = "Ok" /\ Len(resp.records) = 1 /\ resp.records[1].id = to_string(0)

\* C22: delete_table(name) removes and returns the first table of that
\* name as it was, leaves the other tables as they were and in their
\* order, and with no table of that name returns none and changes nothing;
\* afterwards the name resolves to the next table of that name, or to none.
C22_DeleteFirstOnly ==
  [][/\ \A n \in ApiNames :
          LET f == FirstNamed(db', n)
              r == delete_table(db', n)
          IN IF f = 0
             THEN r.removed = None /\ r.db = db'
             ELSE /\ r.removed = Some(db'.tables[f])
                  /\ r.db.name = db'.name
                  /\ Len(r.db.tables) = Len(db'.tables) - 1
                  /\ \A i \in 1..(f - 1) : r.db.tables[i] = db'.tables[i]
                  /\ \A i \in f..Len(r.db.tables) : r.db.tables[i] = db'.tables[i + 1]
     /\ \A c \in Clients :
          (Answered(c) /\ Answer(c).op = "delete_table") =>
            LET q == Answer(c)
                f == FirstNamed(db, q.table)
                later == {i \in (f + 1)..Len(db.tables) : db.tables[i].name = q.table}
            IN IF f = 0
               THEN q.status = "Err" /\ db' = db
               ELSE /\ q.status = "Ok"
                    /\ Len(db'.tables) = Len(db.tables) - 1
                    /\ \A i \in 1..(f - 1) : db'.tables[i] = db.tables[i]
                    /\ \A i \in f..Len(db'.tables) : db'.tables[i] = db.tables[i + 1]
                    /\ get_table(db', q.table)
                         = IF later = {} THEN None
                           ELSE Some(db.tables[CHOOSE i \in later : \A j \in later : i <= j])]_vars

\* the earlier of two tables of one name was deleted, and the name now
\* resolves to the one that is left
C22_Witness ==
  /\ server = "up" /\ pending.op = "delete_table" /\ pending.status = "Ok"
  /\ Len(db.tables) = 1 /\ db.tables[1].name = pending.table
  /\ get_table(db, pending.table) = Some(db.tables[1])

\* C23: add_table always succeeds and appends: the table list grows by
\* exactly one, the tables already there stay as they were and where they
\* were, the new table comes last, empty, whether or not its name is in use.
C23_AddTableAppends ==
  [][/\ last'.op = "add_table" =>
          /\ Len(db'.tables) = Len(db.tables) + 1
          /\ \A i \in 1..Len(db.tables) : db'.tables[i] = db.tables[i]
          /\ db'.tables[Len(db'.tables)].rows = <<>>
          /\ db'.tables[Len(db'.tables)].index = 0
          /\ db'.name = db.name
     /\ \A c \in Clients :
          (Answered(c) /\ Answer(c).op = "create_table") =>
            /\ last'.op = "add_table" /\ Answer(c).status = "Ok"
            /\ db'.tables[Len(db'.tables)].name = Answer(c).table]_vars

\* a table was added under a name in use, after the table that has it and
\* its row
C23_Witness ==
  /\ last.op = "add_table" /\ Len(db.tables) = 2
  /\ db.tables[1].name = db.tables[2].name
  /\ DOMAIN db.tables[1].rows = {0} /\ db.tables[1].index = 1
  /\ db.tables[2].rows = <<>>

\* C24: validate checks the arity first and the kinds after: a row whose
\* length is not the number of columns gets the arity error, also when a
\* kind is wrong too and when the row is longer than the schema; a row of
\* the right length with a wrong kind gets the kind error; any other row
\* is accepted. insert and update report that result.
KindMismatch(columns, row) ==
  \E i \in 1..Len(row) : i <= Len(columns) /\ value_type(row[i]) # columns[i].column_type

Validated(self, row) ==
  IF Len(row) # Len(self.schema.columns)
  THEN Err("Row length does not match schema length")
  ELSE IF KindMismatch(self.schema.columns, row)
       THEN Err("Value type does not match schema type")
       ELSE Ok

C24_ArityBeforeKinds ==
  /\ \A t \in Tables, row \in InputRows : validate(db.tables[t], row) = Validated(db.tables[t], row)
  /\ (last.op \in {"insert", "update"} /\ Validated(LastTable, last.row).status = "Err") =>
       (last.status = "Err" /\ last.err = Validated(LastTable, last.row).err)
  /\ (last.op \in {"insert", "update"} /\ Validated(LastTable, last.row).status = "Ok") =>
       last.err \notin SchemaMismatch

\* a row that is too long and starts with a wrong kind was refused for its
\* length
C24_Witness ==
  /\ last.op = "insert" /\ last.status = "Err"
  /\ Len(last.row) > Len(LastTable.schema.columns)
  /\ KindMismatch(LastTable.schema.columns, last.row)
  /\ last.err = "Row length does not match schema length"

\* C25: the schema and the name of a table are fixed at its creation: no
\* insert, update, delete, intersection, get_row or get_rows, whether it
\* succeeds or fails, changes the schema or the name of any table.
C25_SchemaAndNameFixed ==
  [][/\ Len(db'.tables) = Len(db.tables)
     /\ \A t \in Tables :
          /\ db'.tables[t].schema = db.tables[t].schema
          /\ db'.tables[t].name = db.tables[t].name]_vars

\* an intersection of two tables of equal schemas returned a row, and the
\* two tables have the schema and the name they were created with
C25_Witness ==
  /\ last.op = "intersection" /\ last.status = "Ok" /\ last.t # last.other
  /\ Len(last.retRows) = 1
  /\ db.tables[1].schema = SchemaA /\ db.tables[1].name = "A"
  /\ db.tables[2].schema = SchemaA /\ db.tables[2].name = "B"

\* C26: get_rows returns all current rows and nothing else: each row now
\* stored once, under its id and with its current values, no deleted row;
\* and the number of rows, which is its length, goes up by one with a
\* successful insert, down by one with a successful delete, and is left
\* alone by every other call, starting from none.
C26_GetRowsAllCurrent ==
  [][/\ last'.op = "get_rows" =>
          LET rows == last'.retRows
              stored == db.tables[last'.t].rows
          IN /\ Len(rows) = Cardinality(DOMAIN stored)
             /\ \A i \in 1..Len(rows) :
                  rows[i].id \in DOMAIN stored /\ rows[i] = stored[rows[i].id]
             /\ \A k \in DOMAIN stored :
                  Cardinality({i \in 1..Len(rows) : rows[i].id = k}) = 1
     /\ \A t \in Tables :
          Cardinality(DOMAIN db'.tables[t].rows) - Cardinality(DOMAIN db.tables[t].rows)
            = IF last'.t = t /\ last'.op = "insert" /\ last'.status = "Ok" THEN 1
              ELSE IF last'.t = t /\ last'.op = "delete" /\ last'.status = "Ok" THEN 0 - 1
              ELSE 0]_vars

\* after three inserts and a delete get_rows returns the two rows that
\* are left, which differ in their values
C26_Witness ==
  /\ last.op = "get_rows" /\ Len(last.retRows) = 2
  /\ Len(issued[1]) = 3 /\ DOMAIN db.tables[1].rows = {0, 2}
  /\ db.tables[1].rows[0].values # db.tables[1].rows[2].values

\* C27: an adapter operation triggers a snapshot write only if it mutated
\* state: a read, and a mutating operation that fails, returns without a
\* write and with the database in memory as it was; a handler goes on to
\* the write only from a successful mutation, and the file changes only in
\* the write of a handler or of the autosave, at start-up, or in the GUI.
ReadOps == {"list_tables", "get_table_details", "get_all", "get_by_id", "intersection",
            "tables", "table", "records", "record"}
MutatingOps == {"create_table", "delete_table", "create", "update", "delete",
                "insert_record", "delete_record"}

C27_WriteOnlyAfterMutation ==
  [][/\ \A c \in Clients :
          Answered(c) =>
            LET q == Answer(c) IN
            /\ (q.op \in ReadOps \/ q.status # "Ok" \/ q.result = Some(FALSE)) =>
                 (pc'[c] = "idle" /\ db' = db /\ disk' = disk)
            /\ pc'[c] = "save" =>
                 (q.op \in MutatingOps /\ q.status = "Ok" /\ q.result # Some(FALSE)
                  /\ disk' = disk)
     /\ disk' # disk =>
          \/ \E c \in Clients : pc[c] = "save" /\ pc'[c] = "idle"
          \/ apc = "save"
          \/ server \in {"start", "gui"}]_vars

\* a delete of a row that is not there was answered with the error, and
\* the file holds the snapshot of the database, which has a table
C27_Witness ==
  /\ resp.op = "delete" /\ resp.status = "Err" /\ resp.err = "Row not found"
  /\ Len(db.tables) = 1 /\ DOMAIN db.tables[1].rows = {0}
  /\ disk = File(serialize(db)) /\ faults = 0

\* C28: a row operation that names a table that does not exist fails with
\* the table-not-found error in the REST and the GraphQL adapter (rows, row,
\* insert, update, delete, and intersection for either of its two names),
\* makes no table and changes none, and writes nothing.
RowOps == {"get_all", "get_by_id", "create", "update", "delete",
           "records", "record", "insert_record", "delete_record"}

C28_MissingTableNotFound ==
  [][/\ \A c \in Clients :
          (Answered(c) /\ Answer(c).op \in RowOps /\ FirstNamed(db, Answer(c).table) = 0) =>
            /\ Answer(c).status = "Err" /\ Answer(c).err = "Table not found"
            /\ Answer(c).records = <<>>
            /\ pc'[c] = "idle" /\ db' = db /\ disk' = disk
     /\ \A n1 \in ApiNames, n2 \in ApiNames :
          (FirstNamed(db', n1) = 0 \/ FirstNamed(db', n2) = 0) =>
            LET r == api_intersection(db', n1, n2, <<>>, <<>>, {}) IN
            /\ r.status = "Err" /\ r.save = FALSE /\ r.db = db' /\ r.records = <<>>
            /\ r.err = IF FirstNamed(db', n1) = 0 THEN "Table 1 not found"
                       ELSE "Table 2 not found"
     /\ \A c \in Clients :
          (Answered(c) /\ Answer(c).op = "intersection"
             /\ Answer(c).err \in {"Table 1 not found", "Table 2 not found"}) =>
            (Answer(c).status = "Err" /\ pc'[c] = "idle" /\ db' = db /\ disk' = disk)]_vars

\* an insert into a table that does not exist was refused, and the one
\* table of the database, of another name, keeps its row
C28_Witness ==
  /\ resp.op \in {"create", "insert_record"} /\ resp.status = "Err"
  /\ resp.err = "Table not found"
  /\ Len(db.tables) = 1 /\ db.tables[1].name # resp.table
  /\ DOMAIN db.tables[1].rows = {0}

\* C29: a snapshot file that is there at start-up and cannot be read or
\* parsed makes the start-up fail: the adapter does not go on to serve
\* requests on an empty database, whose next successful mutation would
\* write a snapshot without the former contents over the file.
C29_LoadFailureSurfaced ==
  [][/\ (server \in {"start", "schema"} /\ disk.kind = "corrupt") =>
          server' \notin {"up", "graphql"}
     /\ (server \in {"up", "graphql"} /\ disk.kind = "corrupt" /\ faults = 0) =>
          disk' = disk]_vars

\* C30: an operation that has the lock runs to its end and releases it,
\* so under fair scheduling every caller waiting for the lock, the autosave
\* included, eventually acquires it, and every request issued eventually
\* has its result.
C30_WaitersAcquire ==
  /\ \A c \in Clients : (pc[c] = "waiting") ~> (lock = c)
  /\ (apc = "waiting") ~> (lock = AutoId)
  /\ \A c \in Clients : (pc[c] = "waiting") ~> (pc[c] = "idle")

\* C31: Table::new(name, schema) has the name and the schema given, no rows
\* and the counter at 0, and the first successful insert into it returns
\* the id 0 and stores its row under 0.
C31_NewIsEmpty ==
  /\ \A name \in {"A", "B"}, schema \in {SchemaA, SchemaB, SchemaC, SchemaD} :
       LET table == new(name, schema) IN
       /\ table.name = name /\ table.schema = schema
       /\ DOMAIN table.rows = {} /\ table.index = 0
       /\ \A row \in ValidRows(table) :
            \A overflow_checks \in BOOLEAN :
              LET r == insert(table, row, overflow_checks) IN
              /\ r.status = "Ok" /\ r.id = Some(0)
              /\ r.table.rows = map_insert(<<>>, 0, Row(0, row))
  /\ last.op = "new" =>
       \A t \in Tables : DOMAIN db.tables[t].rows = {} /\ db.tables[t].index = 0
  /\ (last.op = "insert" /\ last.status = "Ok" /\ Len(issued[last.t]) = 1)
       => /\ last.retId = Some(0)
          /\ LastTable.rows[0] = Row(0, last.row)

\* the first accepted insert into the new table
C31_Witness ==
  /\ last.op = "insert" /\ last.status = "Ok"
  /\ issued[last.t] = <<0>>
  /\ DOMAIN LastTable.rows = {0} /\ LastTable.index = 1

\* C32: a successful update(id, v) changes the values of the row of that id
\* and nothing else (the ids, the other rows, the counter, the schema and
\* the name stay), and a successful delete(id) removes the row of that id
\* and changes nothing else.
C32_UpdateDeleteFrame ==
  [][(last'.op \in {"update", "delete"} /\ last'.status = "Ok") =>
       LET before == db.tables[last'.t]
           after == db'.tables[last'.t]
           id == last'.id
       IN /\ id \in DOMAIN before.rows
          /\ after.index = before.index
          /\ after.schema = before.schema /\ after.name = before.name
          /\ \A k \in (DOMAIN before.rows) \ {id} :
               k \in DOMAIN after.rows /\ after.rows[k] = before.rows[k]
          /\ \A o \in Tables : o # last'.t => db'.tables[o] = db.tables[o]
          /\ Len(db'.tables) = Len(db.tables) /\ issued' = issued
          /\ last'.op = "update" =>
               /\ DOMAIN after.rows = DOMAIN before.rows
               /\ after.rows[id] = Row(id, last'.row)
          /\ last'.op = "delete" =>
               DOMAIN after.rows = (DOMAIN before.rows) \ {id}]_vars

\* a successful update of one of two rows, the other holding other values
C32_Witness ==
  /\ last.op = "update" /\ last.status = "Ok"
  /\ Cardinality(DOMAIN LastTable.rows) = 2
  /\ \E k \in DOMAIN LastTable.rows : LastTable.rows[k].values # last.row

\* C33: the counter only increases, also at the top of its range: no insert
\* leaves the counter below what it was, no successful insert returns the
\* id of a row in the table or stores over one, and an insert that does not
\* return success leaves the rows as they were.
C33_CounterNeverWraps ==
  [][last'.op = "insert" =>
       LET before == db.tables[last'.t]
           after == db'.tables[last'.t]
       IN /\ ~u32_lt(after.index, before.index)
          /\ last'.status = "Ok" =>
               /\ last'.retId[1] \notin DOMAIN before.rows
               /\ \A k \in DOMAIN before.rows : after.rows[k] = before.rows[k]
               /\ u32_lt(before.index, after.index)
          /\ last'.status # "Ok" => after.rows = before.rows]_vars

\* C34: in every state reached from Table::new by insert, update and
\* delete, each row is stored under the key equal to its id field, every
\* stored id is below the counter, and the counter is the number of
\* successful inserts so far, the k-th of which returned k - 1.
C34_KeysIdsCounter ==
  \A t \in Tables :
    LET table == db.tables[t] IN
    /\ \A k \in DOMAIN table.rows :
         table.rows[k].id = k /\ u32_lt(k, table.index)
    /\ table.index = Len(issued[t])
    /\ \A k \in 1..Len(issued[t]) : issued[t][k] = k - 1

\* three accepted inserts, the row of id 1 deleted, a row updated last
C34_Witness ==
  /\ last.op = "update" /\ last.status = "Ok"
  /\ LastTable.index = 3 /\ DOMAIN LastTable.rows = {0, 2}

\* the file at db_path holds the snapshot of the database in memory
Synced == disk = File(serialize(db))

\* C35: in the REST adapter, while no write of the snapshot has failed, a
\* mutation in memory that the file does not show exists only under the
\* lock: the step that ends a handler that mutated leaves the file equal to
\* the database and the lock free, a handler that has mutated and not yet
\* saved holds the lock, and no other step takes the file and the database
\* apart.
C35_FreeLockMeansSynced ==
  [][(server' = "up" /\ faults' = 0) =>
       /\ \A c \in Clients :
            (pc[c] = "save" /\ pc'[c] # "save") => (Synced' /\ lock' = 0)
       /\ \A c \in Clients : pc'[c] = "save" => lock' = c
       /\ (Synced /\ \A c \in Clients : pc'[c] # "save") => Synced'
       /\ (db' # db /\ server = "up") => \E c \in Clients : pc'[c] = "save"]_vars

\* a record deleted through the adapter, the lock free again, no write
\* failed, and the file holding the database without the record
C35_Witness ==
  /\ server = "up" /\ faults = 0 /\ lock = 0
  /\ resp.op = "delete" /\ resp.status = "Ok"
  /\ Synced
  /\ \E t \in Tables : db.tables[t].index > 0 /\ DOMAIN db.tables[t].rows = {}

\* the columns of two schemas are as many and of the same kinds, position
\* by position
SameKinds(s1, s2) ==
  /\ Len(s1.columns) = Len(s2.columns)
  /\ \A i \in 1..Len(s1.columns) : s1.columns[i].column_type = s2.columns[i].column_type

\* C36: in the GUI, when the selected table and the table chosen in the
\* intersection window have as many columns, of the same kinds position by
\* position, the choice sets the intersection result and shows no error
\* message, whatever the names of the columns are.
C36_KindsAloneSuffice ==
  (/\ server = "gui" /\ last.op = "intersection"
   /\ SameKinds(LastSelf.schema, LastOther.schema))
    => /\ last.status = "Ok" /\ last.err = ""
       /\ gui.intersection_result = Some(last.retRows)
       /\ gui.intersection_table = Some(LastOther.name)

\* this step writes the snapshot of the open database, and the write works
SaveSucceeds == disk' = File(serialize(db)) /\ faults' = faults

\* C37: in the GUI, a step that changes the open database leaves the
\* unsaved-changes flag set; the flag is cleared only by a save that
\* succeeds or by closing the database; and a database whose flag is set is
\* closed only from the confirmation dialog, by Close without Saving or by
\* a Save and Close whose save succeeds.
C37_UnsavedFlagGuardsClose ==
  [][server = "gui" =>
       /\ (gui.open /\ gui'.open /\ ~gui'.crashed /\ db' # db)
            => gui'.has_unsaved_changes
       /\ (gui.has_unsaved_changes /\ ~gui'.has_unsaved_changes)
            => (~gui'.open \/ (SaveSucceeds /\ db' = db))
       /\ (gui.open /\ ~gui'.open /\ gui.has_unsaved_changes)
            => /\ gui.show_close_confirmation
               /\ disk' = disk \/ SaveSucceeds]_vars

\* a row has been added to a table, the file does not hold it, the flag is
\* set, and Close Database has brought up the confirmation dialog
C37_Witness ==
  /\ server = "gui" /\ gui.open /\ ~gui.crashed
  /\ gui.has_unsaved_changes /\ gui.show_close_confirmation
  /\ \E t \in Tables : DOMAIN db.tables[t].rows # {}
  /\ disk # File(serialize(db))

\* C38: in the GUI, a Save and Close whose save fails leaves the database
\* open, its contents as they were and the unsaved-changes flag as it was
\* (set); from the confirmation dialog the database is closed only by a
\* save that succeeded or by Close without Saving.
C38_FailedSaveKeepsOpen ==
  [][(server = "gui" /\ gui.show_close_confirmation /\ gui.open) =>
       /\ faults' # faults =>
            /\ gui'.open /\ db' = db
            /\ gui'.has_unsaved_changes = gui.has_unsaved_changes
            /\ gui'.selected_table = gui.selected_table
       /\ ~gui'.open => (disk' = disk \/ SaveSucceeds)]_vars

\* a save has failed and cut the file short; the database, with a table in
\* it, is open, the flag set and the confirmation dialog up
C38_Witness ==
  /\ server = "gui" /\ gui.open /\ gui.show_close_confirmation
  /\ gui.has_unsaved_changes
  /\ faults > 0 /\ disk = BadFile
  /\ Len(db.tables) > 0

\* the value sequences of a result
ValueSeqs(rows) == {rows[i].values : i \in 1..Len(rows)}

\* every value sequence of one set is == to a value sequence of the other
SameValueSets(V, W) ==
  /\ \A v \in V : \E w \in W : vec_eq(v, w)
  /\ \A w \in W : \E v \in V : vec_eq(v, w)

\* what self.intersection(other) can return for two tables
Intersections(self, other) ==
  UNION {UNION {{intersection(self, other, self_order, other_order, collide) :
                   self_order \in SelfOrders(self, collide)} :
                other_order \in Orders(DOMAIN other.rows)} :
         collide \in Collisions(ValuesOf(self) \cup ValuesOf(other))}

\* C39: for two tables A and B of equal schemas, the value sequences of
\* A.intersection(B) and those of B.intersection(A) are the same set (up to
\* ==), and A.intersection(A) returns every row of A exactly once.
C39_IntersectionSymmetric ==
  \A t \in Tables, o \in Tables :
    db.tables[t].schema = db.tables[o].schema =>
      /\ \A ab \in Intersections(db.tables[t], db.tables[o]),
            ba \in Intersections(db.tables[o], db.tables[t]) :
           /\ ab.status = "Ok" /\ ba.status = "Ok"
           /\ SameValueSets(ValueSeqs(ab.rows), ValueSeqs(ba.rows))
      /\ \A aa \in Intersections(db.tables[t], db.tables[t]) :
           /\ Len(aa.rows) = Cardinality(DOMAIN db.tables[t].rows)
           /\ Range(aa.rows) = Range(db.tables[t].rows)

\* the values held by the rows of the tables
StoredValues ==
  UNION {UNION {Range(db.tables[t].rows[k].values) : k \in DOMAIN db.tables[t].rows} :
         t \in Tables}

\* C40: == on values is an equivalence: every value equals itself, a == b
\* gives b == a, a == b and b == c give a == c (for Money values too), and
\* values of different kinds are never equal.
C40_EqIsEquivalence ==
  \A a \in StoredValues, b \in StoredValues, c \in StoredValues :
    /\ eq(a, a)
    /\ eq(a, b) => eq(b, a)
    /\ (eq(a, b) /\ eq(b, c)) => eq(a, c)
    /\ a.kind # b.kind => ~eq(a, b)
====
